---- MODULE Spec2Model ----
(***************************************************************************)
(* Presence sessionization and activity aggregation of FaceBoard.py:        *)
(*   - batch session reconstruction (calculate_sessions and                 *)
(*     DatabaseManager._calculate_session_metrics),                         *)
(*   - the live tracker FacebookActivityTracker.update_activity_data with   *)
(*     its JSON persistence (load_data / save_data),                        *)
(*   - the dashboard's dense hour / weekday / heatmap aggregates.           *)
(*                                                                          *)
(* Time.  Stored timestamps are 'YYYY-MM-DD HH:MM:SS' strings; the model    *)
(* counts whole seconds from an epoch that is a Monday 00:00:00.  pandas    *)
(* turns a gap into minutes by dividing by one minute; the model keeps the  *)
(* gap in seconds and multiplies the threshold instead (x / 60 > G iff      *)
(* x > 60 * G for whole seconds).  Values reported in minutes with two      *)
(* decimals are kept in hundredths of a minute.                             *)
(***************************************************************************)
EXTENDS Integers, Sequences, FiniteSets, TLC

VARIABLES
    df,            \* the frame handed to the batch functions: rows [timestamp, name]
    gap,           \* session_gap_minutes of the call
    session_df,    \* what calculate_sessions returned last
    sess_loc,      \* its per-user locals (timestamps, session_starts, ...)
    metrics_df,    \* what _calculate_session_metrics returned last
    metrics_loc,   \* its per-user locals
    cache,         \* _data_cache: [data, timestamp]
    activity_data, \* FacebookActivityTracker.activity_data: user_id -> entry
    data_file,     \* the contents of facebook_activity_data.json, None if absent
    running,       \* a tracker process exists
    clock,         \* datetime.now(), in ticks since the epoch
    scans,         \* scans made so far
    runs_started,  \* tracker processes started so far
    last_op,       \* the last operation of the tracker
    last_snapshot, \* the online_contacts of the last update_activity_data call
    present_run,   \* user_id -> the run of consecutive scans the user is present in
    lost_starts,   \* <<user_id, online_since, number of periods>> of the entries
                   \* open at a shutdown
    selected_users, \* the dashboard's user-dropdown value
    date_filter,   \* its date-filter: None or [start_date, end_date]
    day_counts,    \* the frame update_daily_chart plots
    hour_counts,   \* the frame update_hourly_chart plots
    heatmap_data,  \* the pivot update_heatmap plots
    selected_user, \* the selected-user-dropdown value: None or a name
    user_charts,   \* hour_counts and day_counts of update_user_charts
    pivot_charts,  \* hour_counts and day_counts of _create_pivot_charts
    activity_heatmap, \* the pivot of _create_activity_heatmap
    current_status, \* what update_current_status returned last
    store,         \* the rows of table online_activity, in insertion order
    arrived,       \* for each row of the store, the clock at its insertion
    cache_obj,     \* the identity of the DataFrame object _data_cache['data'] refers to
    pc,            \* caller -> where its get_activity_data() call stands
    call,          \* caller -> the locals of its call: current_time, df and df's identity
    held,          \* caller -> the DataFrame its last call returned, as it is now
    returned,      \* caller -> the outcome of its last call, as it was on return
    calls_made,    \* get_activity_data() calls begun so far
    time_steps,    \* advances of the clock so far
    since_df,      \* what get_activity_since returned last, with its argument
    scan_result    \* what the scan's execute_script call did last

batchVars == <<df, gap, session_df, sess_loc, metrics_df, metrics_loc, cache>>

liveVars == <<activity_data, data_file, running, clock, scans, runs_started, last_op,
              last_snapshot, present_run, lost_starts>>

aggVars == <<selected_users, date_filter, day_counts, hour_counts, heatmap_data>>

chartVars == <<selected_user, user_charts, pivot_charts, activity_heatmap>>

\* the variables of the further producers and readers
statusVars == <<current_status>>

storeVars == <<store, arrived, cache_obj, pc, call, held, returned, calls_made, time_steps>>

sinceVars == <<since_df>>

\* what the browser answered to the scan's script
trackVars == <<scan_result>>

extVars == <<chartVars, statusVars, storeVars, sinceVars, trackVars>>

vars == <<batchVars, liveVars, aggVars, extVars>>

----------------------------------------------------------------------------
(* Bounds of the model *)

MaxRows == 3       \* rows of the input frame
NumTimes == 5      \* timestamps are the first NumTimes entries of TimeSamples
NumGaps == 2       \* session_gap_minutes: the first NumGaps entries of GapSamples
MaxAggRows == 2    \* rows of the frame the dashboard aggregates
NumAggTimes == 3   \* their timestamps: the first NumAggTimes entries of AggTimeSamples
MaxScans == 3      \* scans of the tracker
MaxStarts == 2     \* tracker processes
MaxTrackScans == 4 \* scans of the tracker that runs for days
NumDeltas == 1     \* clock steps: the first NumDeltas entries of DeltaSamples
NumStatusTimes == 3 \* timestamps the current-status table draws from
NumNows == 2       \* readings of the clock update_current_status draws from
NumSinceTimes == 2 \* timestamps the table of get_activity_since draws from
NumSinceNows == 2  \* readings of the clock get_activity_since draws from
MaxStore == 2      \* rows in table online_activity
MaxCalls == 2      \* get_activity_data() calls
MaxTimeSteps == 2  \* advances of the clock between them
TicksPerSec == 2   \* resolution of the clock

(* Program constants *)

SecPerMin == 60
SecPerDay == 86400
session_break_threshold == 15
DefaultGap == 15
SecPerHour == 3600
HoursPerDay == 24
DaysPerWeek == 7
CACHE_DURATION == 10            \* seconds
StatusWindow == 15              \* minutes: "active in the last 15 minutes"

\* Seconds since the epoch: Monday 00:00:00, 00:15:00, 00:30:00, 00:45:01,
\* Tuesday 13:00:00, then Monday 00:05:00, Tuesday 00:00:00, Monday 00:45:00.
TimeSamples == <<0, 900, 1800, 2701, 133200, 300, 86400, 2700>>

\* Ticks between two readings of the clock: a minute and a tick, one tick,
\* an hour, a day
DeltaSamples ==
    <<SecPerMin * TicksPerSec + 1, 1, SecPerHour * TicksPerSec, SecPerDay * TicksPerSec>>

\* Seconds since the epoch: Monday 00:00:00, Tuesday 13:00:00, Tuesday
\* 00:00:00, Monday 01:00:00, Sunday 23:59:59.
AggTimeSamples == <<0, 133200, 86400, 3600, 604799>>

\* Minutes: the default, 0, the dashboard's minimum and maximum, 5
GapSamples == <<DefaultGap, 0, 1, 60, 5>>

NameList == <<"Alice", "Bob">>     \* in the order groupby('name') yields them
Names == {NameList[i] : i \in DOMAIN NameList}

\* Python values that may be None, and results that may not exist yet
None == [kind |-> "None"]
Unset == [kind |-> "unset"]
Value(v) == [kind |-> "value", value |-> v]

\* _data_cache = {'data': None, 'timestamp': 0}
EmptyCache == [data |-> None, timestamp |-> 0]

----------------------------------------------------------------------------
(* Helpers for numpy / pandas values *)

RECURSIVE SumSeq(_)
SumSeq(s) == IF s = <<>> THEN 0 ELSE Head(s) + SumSeq(Tail(s))

RECURSIVE MaxSeq(_)
MaxSeq(s) ==
    IF Len(s) = 1 THEN s[1]
    ELSE LET m == MaxSeq(Tail(s)) IN IF Head(s) >= m THEN Head(s) ELSE m

RECURSIVE MinSeq(_)
MinSeq(s) ==
    IF Len(s) = 1 THEN s[1]
    ELSE LET m == MinSeq(Tail(s)) IN IF Head(s) <= m THEN Head(s) ELSE m

\* a[i] of a 0-based numpy array held as a TLA+ sequence
At(a, i) == a[i + 1]

RECURSIVE InsertSorted(_, _)
InsertSorted(x, s) ==
    IF s = <<>> THEN <<x>>
    ELSE IF x < Head(s) THEN <<x>> \o s
    ELSE <<Head(s)>> \o InsertSorted(x, Tail(s))

\* the column left in frame order
SortValuesSkipped(s) == s

\* sort_values('timestamp') of a column of timestamps
RECURSIVE SortValues(_)
SortValues(s) ==
    IF s = <<>> THEN <<>>
    ELSE InsertSorted(s[Len(s)], SortValues(SubSeq(s, 1, Len(s) - 1)))

\* round(num / den, 0) to the nearest integer, ties to even (numpy's rint)
RoundDiv(num, den) ==
    LET q == num \div den
        r == num % den
    IN  IF 2 * r < den THEN q
        ELSE IF 2 * r > den THEN q + 1
        ELSE IF q % 2 = 0 THEN q ELSE q + 1

\* round(seconds / 60 / count, 2), in hundredths of a minute
Round2(seconds, count) == RoundDiv(100 * seconds, SecPerMin * count)

----------------------------------------------------------------------------
(* calculate_sessions *)

\* group['timestamp'] of one name, in frame order
RECURSIVE GroupTimestamps(_, _)
GroupTimestamps(d, name) ==
    IF d = <<>> THEN <<>>
    ELSE (IF Head(d).name = name THEN <<Head(d).timestamp>> ELSE <<>>)
         \o GroupTimestamps(Tail(d), name)

\* the names groupby('name') iterates over, ascending
GroupNames(d) ==
    SelectSeq(NameList, LAMBDA n : \E i \in DOMAIN d : d[i].name = n)

\* np.diff(timestamps), in seconds
TimeDiffs(ts) == [i \in 1..(Len(ts) - 1) |-> ts[i + 1] - ts[i]]

RECURSIVE WhereGreaterOrEqual(_, _, _)
WhereGreaterOrEqual(diffs, minutes, i) ==
    IF i >= Len(diffs) THEN <<>>
    ELSE (IF At(diffs, i) >= minutes * SecPerMin THEN <<i>> ELSE <<>>)
         \o WhereGreaterOrEqual(diffs, minutes, i + 1)

\* np.where(time_diffs > threshold)[0]: the 0-based positions, ascending
RECURSIVE WhereGreater(_, _, _)
WhereGreater(diffs, minutes, i) ==
    IF i >= Len(diffs) THEN <<>>
    ELSE (IF At(diffs, i) > minutes * SecPerMin THEN <<i>> ELSE <<>>)
         \o WhereGreater(diffs, minutes, i + 1)

\* a variant that breaks where the difference is below the threshold
SessionBreaksBelow(ts, minutes) ==
    LET diffs == TimeDiffs(ts)
    IN  SelectSeq([k \in 1..Len(diffs) |-> k - 1],
                  LAMBDA i : At(diffs, i) < minutes * SecPerMin)

SessionBreaks(ts, minutes) == WhereGreater(TimeDiffs(ts), minutes, 0)

\* [0] + [i + 1 for i in session_breaks]
SessionStarts(breaks) == <<0>> \o [k \in DOMAIN breaks |-> breaks[k] + 1]

\* list(session_breaks) + [len(timestamps) - 1]
SessionEnds(breaks, n) == breaks \o <<n - 1>>

\* every duration measured from timestamps[0] instead of timestamps[start_idx]
ZipLengthsFromFirst(ts, starts, ends) ==
    [k \in 1..(IF Len(starts) <= Len(ends) THEN Len(starts) ELSE Len(ends)) |->
        At(ts, ends[k]) - At(ts, 0)]

\* the loop over zip(session_starts, session_ends): durations in seconds
ZipLengths(ts, starts, ends) ==
    [k \in 1..(IF Len(starts) <= Len(ends) THEN Len(starts) ELSE Len(ends)) |->
        At(ts, ends[k]) - At(ts, starts[k])]

\* the locals of one pass of the loop body of calculate_sessions
UserLocals(d, name, minutes) ==
    LET timestamps == SortValues(GroupTimestamps(d, name))
        session_breaks == SessionBreaks(timestamps, minutes)
        session_starts == SessionStarts(session_breaks)
        session_ends == SessionEnds(session_breaks, Len(timestamps))
    IN  [timestamps |-> timestamps,
         session_breaks |-> session_breaks,
         session_count |-> Len(session_breaks) + 1,
         session_starts |-> session_starts,
         session_ends |-> session_ends,
         session_lengths |-> ZipLengths(timestamps, session_starts, session_ends)]

\* user_data['date'].nunique()
DaysActive(ts) == Cardinality({ts[i] \div SecPerDay : i \in DOMAIN ts})

\* the row appended to session_data
SummaryRow(name, loc) ==
    LET lengths == loc.session_lengths
        has == loc.session_count > 0 /\ lengths # <<>>
    IN  [Name |-> name,
         TotalSessions |-> loc.session_count,
         AverageSession |-> IF has THEN Round2(SumSeq(lengths), Len(lengths)) ELSE 0,
         MaxSession |-> IF has THEN Round2(MaxSeq(lengths), 1) ELSE 0,
         TotalOnline |-> IF has THEN Round2(SumSeq(lengths), 1) ELSE 0,
         FirstSeen |-> MinSeq(loc.timestamps),
         LastSeen |-> MaxSeq(loc.timestamps),
         DaysActive |-> DaysActive(loc.timestamps)]

\* sort_values(<total online>, ascending=False); rows that tie keep their order
RECURSIVE InsertDesc(_, _)
InsertDesc(row, rows) ==
    IF rows = <<>> THEN <<row>>
    ELSE IF row.TotalOnline > Head(rows).TotalOnline THEN <<row>> \o rows
    ELSE <<Head(rows)>> \o InsertDesc(row, Tail(rows))

RECURSIVE SortDesc(_)
SortDesc(rows) ==
    IF rows = <<>> THEN <<>>
    ELSE InsertDesc(rows[Len(rows)], SortDesc(SubSeq(rows, 1, Len(rows) - 1)))

\* the names whose pass of the loop runs to the end
SessionsLoopNames(d) == IF Len(d) < 2 THEN <<>> ELSE GroupNames(d)

calculate_sessions_locals(d, minutes) ==
    LET names == SessionsLoopNames(d)
    IN  [n \in {names[i] : i \in DOMAIN names} |-> UserLocals(d, n, minutes)]

calculate_sessions(d, minutes) ==
    LET names == SessionsLoopNames(d)
    IN  SortDesc([i \in DOMAIN names |->
                    SummaryRow(names[i], UserLocals(d, names[i], minutes))])

----------------------------------------------------------------------------
(* DatabaseManager._calculate_session_metrics *)

\* a variant whose loop leaves the starts of the middle sessions at zero
MetricsStartsLastOnly(breaks) ==
    LET count == Len(breaks) + 1
    IN  [p \in 1..count |->
            IF p = count /\ Len(breaks) > 0 THEN breaks[Len(breaks)] + 1 ELSE 0]

\* session_starts after the three assignments to it (np.zeros, then the loop
\* over enumerate(session_breaks), then session_starts[-1])
MetricsStarts(breaks) ==
    LET count == Len(breaks) + 1
    IN  [p \in 1..count |->
            IF p = count /\ Len(breaks) > 0 THEN breaks[Len(breaks)] + 1
            ELSE IF p >= 2 /\ p - 2 < Len(breaks) - 1 THEN breaks[p - 1] + 1
            ELSE 0]

\* session_ends after session_ends[i] = break_idx and session_ends[-1] = n - 1
MetricsEnds(breaks, n) ==
    LET count == Len(breaks) + 1
    IN  [p \in 1..count |-> IF p = count THEN n - 1 ELSE breaks[p]]

\* the loop over zip(session_starts, session_ends) with its 'end >= start' test
RECURSIVE ValidLengths(_, _, _, _)
ValidLengths(ts, starts, ends, k) ==
    IF k > Len(starts) \/ k > Len(ends) THEN <<>>
    ELSE (IF ends[k] >= starts[k]
          THEN <<At(ts, ends[k]) - At(ts, starts[k])>> ELSE <<>>)
         \o ValidLengths(ts, starts, ends, k + 1)

MetricsLocals(d, name) ==
    LET timestamps == SortValues(GroupTimestamps(d, name))
        session_breaks == SessionBreaks(timestamps, session_break_threshold)
        session_starts == MetricsStarts(session_breaks)
        session_ends == MetricsEnds(session_breaks, Len(timestamps))
    IN  [timestamps |-> timestamps,
         session_breaks |-> session_breaks,
         session_count |-> Len(session_breaks) + 1,
         session_starts |-> session_starts,
         session_ends |-> session_ends,
         session_lengths |-> ValidLengths(timestamps, session_starts, session_ends, 1)]

\* the names whose pass of the loop reaches session_data.append
MetricsLoopNames(d) ==
    IF Len(d) < 2 THEN <<>>
    ELSE SelectSeq(GroupNames(d), LAMBDA n : Len(GroupTimestamps(d, n)) >= 2)

calculate_session_metrics_locals(d) ==
    LET names == MetricsLoopNames(d)
    IN  [n \in {names[i] : i \in DOMAIN names} |-> MetricsLocals(d, n)]

calculate_session_metrics(d) ==
    LET names == MetricsLoopNames(d)
    IN  IF names = <<>> THEN None
        ELSE Value(SortDesc([i \in DOMAIN names |->
                                SummaryRow(names[i], MetricsLocals(d, names[i]))]))

----------------------------------------------------------------------------
(* FacebookActivityTracker: update_activity_data, load_data, save_data       *)
(*                                                                          *)
(* datetime.now() is finer than the '%Y-%m-%d %H:%M:%S' strings the tracker  *)
(* stores: the clock counts ticks, TicksPerSec of them to a second, and a    *)
(* stored timestamp is a whole number of seconds.  A duration in minutes is  *)
(* kept as its number of ticks.  A display name is a sequence of characters. *)

Lower(c) == IF c = "A" THEN "a" ELSE IF c = "B" THEN "b" ELSE IF c = "C" THEN "c" ELSE c

\* name.lower()
LowerName(name) == [i \in DOMAIN name |-> Lower(name[i])]

\* name.lower().replace(' ', '_')
UserId(name) ==
    [i \in DOMAIN name |-> IF Lower(name[i]) = " " THEN "_" ELSE Lower(name[i])]

\* current_time.strftime('%Y-%m-%d %H:%M:%S'): the whole seconds
Strftime(ticks) == ticks \div TicksPerSec

\* datetime.datetime.strptime(timestamp, '%Y-%m-%d %H:%M:%S')
Strptime(seconds) == seconds * TicksPerSec

\* strftime('%Y-%m-%d'), '%Y-W%U' and '%H' of a datetime.  The epoch is Monday
\* 2024-01-01 00:00:00 and the model stays inside that year: %U counts the
\* weeks from the year's first Sunday, the days before it being week 0.
DayKey(ticks) == Strftime(ticks) \div SecPerDay
WeekKey(ticks) == (DayKey(ticks) + 1) \div DaysPerWeek
HourKey(ticks) == (Strftime(ticks) \div SecPerHour) % HoursPerDay

\* a variant that assigns where the code adds
AddToOverwriting(d, key, amount) ==
    IF key \in DOMAIN d THEN [d EXCEPT ![key] = amount]
    ELSE d @@ (key :> amount)

\* d[key] += amount, after 'if key not in d: d[key] = 0'
AddTo(d, key, amount) ==
    IF key \in DOMAIN d THEN [d EXCEPT ![key] = @ + amount]
    ELSE d @@ (key :> amount)

EmptyDict == [x \in {} |-> 0]

\* the entry of a user first seen in this scan
NewEntry(name, timestamp) ==
    [name |-> name,
     total_minutes |-> 0,
     online_since |-> Value(timestamp),
     online_periods |-> <<>>,
     daily_activity |-> EmptyDict,
     weekly_activity |-> EmptyDict,
     hourly_activity |-> EmptyDict]

\* a variant that restarts the session of a user who is still online
RECURSIVE ProcessOnlineResetting(_, _, _, _)
ProcessOnlineResetting(ad, online_contacts, i, timestamp) ==
    IF i > Len(online_contacts) THEN ad
    ELSE LET name == online_contacts[i]
             user_id == UserId(name)
             next == IF user_id \notin DOMAIN ad
                         THEN ad @@ (user_id :> NewEntry(name, timestamp))
                     ELSE [ad EXCEPT ![user_id].online_since = Value(timestamp)]
         IN  ProcessOnlineResetting(next, online_contacts, i + 1, timestamp)

\* the first loop of update_activity_data, from online_contacts[i] on
RECURSIVE ProcessOnline(_, _, _, _)
ProcessOnline(ad, online_contacts, i, timestamp) ==
    IF i > Len(online_contacts) THEN ad
    ELSE LET name == online_contacts[i]
             user_id == UserId(name)
             next == IF user_id \notin DOMAIN ad
                         THEN ad @@ (user_id :> NewEntry(name, timestamp))
                     ELSE IF ad[user_id].online_since = None
                         THEN [ad EXCEPT ![user_id].online_since = Value(timestamp)]
                     ELSE ad
         IN  ProcessOnline(next, online_contacts, i + 1, timestamp)

\* a comparison that lower-cases the name but leaves its blanks
StillOnlineNoReplace(online_contacts, user_id) ==
    \E i \in DOMAIN online_contacts : LowerName(online_contacts[i]) = user_id

\* the inner loop that sets still_online
StillOnline(online_contacts, user_id) ==
    \E i \in DOMAIN online_contacts : UserId(online_contacts[i]) = user_id

\* a variant that stamps the period's end with its start
CloseSessionEndAtStart(entry, current_time, timestamp) ==
    LET online_since == Strptime(entry.online_since.value)
        session_duration_minutes == current_time - online_since
    IN  [entry EXCEPT
            !.total_minutes = @ + session_duration_minutes,
            !.online_periods = Append(@, [start |-> entry.online_since.value,
                                          end |-> entry.online_since.value,
                                          duration_minutes |-> session_duration_minutes]),
            !.daily_activity = AddTo(@, DayKey(online_since), session_duration_minutes),
            !.weekly_activity = AddTo(@, WeekKey(online_since), session_duration_minutes),
            !.hourly_activity = AddTo(@, HourKey(online_since), session_duration_minutes),
            !.online_since = None]

\* a variant that files the session under the day, week and hour it ends in
CloseSessionBucketsAtEnd(entry, current_time, timestamp) ==
    LET online_since == Strptime(entry.online_since.value)
        session_duration_minutes == current_time - online_since
    IN  [entry EXCEPT
            !.total_minutes = @ + session_duration_minutes,
            !.online_periods = Append(@, [start |-> entry.online_since.value,
                                          end |-> timestamp,
                                          duration_minutes |-> session_duration_minutes]),
            !.daily_activity = AddTo(@, DayKey(current_time), session_duration_minutes),
            !.weekly_activity = AddTo(@, WeekKey(current_time), session_duration_minutes),
            !.hourly_activity = AddTo(@, HourKey(current_time), session_duration_minutes),
            !.online_since = None]

\* the body of 'if not still_online'
CloseSession(entry, current_time, timestamp) ==
    LET online_since == Strptime(entry.online_since.value)
        session_duration_minutes == current_time - online_since
    IN  [entry EXCEPT
            !.total_minutes = @ + session_duration_minutes,
            !.online_periods = Append(@, [start |-> entry.online_since.value,
                                          end |-> timestamp,
                                          duration_minutes |-> session_duration_minutes]),
            !.daily_activity = AddTo(@, DayKey(online_since), session_duration_minutes),
            !.weekly_activity = AddTo(@, WeekKey(online_since), session_duration_minutes),
            !.hourly_activity = AddTo(@, HourKey(online_since), session_duration_minutes),
            !.online_since = None]

\* the second loop of update_activity_data
ProcessOffline(ad, online_contacts, current_time, timestamp) ==
    [user_id \in DOMAIN ad |->
        IF ad[user_id].online_since = None THEN ad[user_id]
        ELSE IF StillOnline(online_contacts, user_id) THEN ad[user_id]
        ELSE CloseSession(ad[user_id], current_time, timestamp)]

\* self.activity_data after update_activity_data(online_contacts) at current_time
update_activity_data(ad, online_contacts, current_time) ==
    LET timestamp == Strftime(current_time)
    IN  ProcessOffline(ProcessOnline(ad, online_contacts, 1, timestamp),
                       online_contacts, current_time, timestamp)

----------------------------------------------------------------------------
(* The tracker's specification: processes start, scan and stop. *)

DisplayNames == {<<"A", " ", "B">>, <<"a", " ", "b">>, <<"C">>}

UserIds == {UserId(n) : n \in DisplayNames}

\* what scan_online_contacts can return: lists of distinct names ([] on any
\* error), here of up to two names
Snapshots ==
    {s \in {<<>>} \cup [1..1 -> DisplayNames] \cup [1..2 -> DisplayNames] :
        \A i, j \in DOMAIN s : i # j => s[i] # s[j]}

SnapshotIds(s) == {UserId(s[i]) : i \in DOMAIN s}

ScanDeltas == {DeltaSamples[i] : i \in 1..NumDeltas}

NoRuns == [u \in UserIds |-> None]

\* the dashboard's variables when no dashboard runs
AggIdle ==
    /\ selected_users = {}
    /\ date_filter = None
    /\ day_counts = Unset
    /\ hour_counts = Unset
    /\ heatmap_data = Unset

\* the per-user charts' and the export's variables when neither runs
ChartIdle ==
    /\ selected_user = None
    /\ user_charts = Unset
    /\ pivot_charts = Unset
    /\ activity_heatmap = Unset

StatusIdle == current_status = Unset

\* the threads that call get_activity_data()
AllCallers == {"c1", "c2"}

\* the locals of a call that has not started
NoCall == [current_time |-> 0, df |-> <<>>, obj |-> 0]

\* the store and its readers before anything is written or read
StoreIdle ==
    /\ store = <<>>
    /\ arrived = <<>>
    /\ cache_obj = 0
    /\ pc = [c \in AllCallers |-> "idle"]
    /\ call = [c \in AllCallers |-> NoCall]
    /\ held = [c \in AllCallers |-> None]
    /\ returned = [c \in AllCallers |-> None]
    /\ calls_made = 0
    /\ time_steps = 0

SinceIdle == since_df = Unset

TrackIdle == scan_result = Unset

ExtIdle == ChartIdle /\ StatusIdle /\ StoreIdle /\ SinceIdle /\ TrackIdle

\* the tracker's variables before any tracker has run
LiveIdle ==
    /\ activity_data = EmptyDict
    /\ data_file = None
    /\ running = FALSE
    /\ clock = 0
    /\ scans = 0
    /\ runs_started = 0
    /\ last_op = "none"
    /\ last_snapshot = <<>>
    /\ present_run = NoRuns
    /\ lost_starts = {}

OpenEntries(ad) == {u \in DOMAIN ad : ad[u].online_since # None}

\* FacebookActivityTracker(): __init__ sets activity_data = {} and calls load_data
Start ==
    /\ ~running
    /\ runs_started < MaxStarts
    /\ \E dt \in ScanDeltas : clock' = clock + dt
    /\ activity_data' = IF data_file = None THEN EmptyDict ELSE data_file.value
    /\ running' = TRUE
    /\ runs_started' = runs_started + 1
    /\ last_op' = "load"
    /\ UNCHANGED <<data_file, scans, last_snapshot, present_run, lost_starts, batchVars,
                   aggVars, extVars>>

\* The run of consecutive scans a user is present in, after one more scan:
\* t1 and tk are the timestamps of its first and latest scan, n their number,
\* open_before tells whether an online_since entry existed when the scan at
\* t1 began, and ended is set by the scan that finds the user absent.
NextRun(run, user_id, online_contacts, timestamp, ad) ==
    IF user_id \in SnapshotIds(online_contacts)
    THEN IF run = None \/ run.value.ended
         THEN Value([t1 |-> timestamp, tk |-> timestamp, n |-> 1,
                     open_before |-> user_id \in OpenEntries(ad),
                     ended |-> FALSE])
         ELSE Value([run.value EXCEPT !.tk = timestamp, !.n = @ + 1])
    ELSE IF run = None \/ run.value.ended THEN None
         ELSE Value([run.value EXCEPT !.ended = TRUE])

\* one pass of the loop of track_continuously: scan_online_contacts, then
\* update_activity_data, which ends with save_data
Scan ==
    /\ running
    /\ scans < MaxScans
    /\ \E dt \in ScanDeltas, online_contacts \in Snapshots :
          /\ clock' = clock + dt
          /\ activity_data' = update_activity_data(activity_data, online_contacts, clock')
          /\ last_snapshot' = online_contacts
          /\ present_run' = [u \in UserIds |->
                NextRun(present_run[u], u, online_contacts, Strftime(clock'),
                        activity_data)]
    /\ data_file' = Value(activity_data')
    /\ scans' = scans + 1
    /\ last_op' = "update"
    /\ UNCHANGED <<running, runs_started, lost_starts, batchVars, aggVars, extVars>>

\* Ctrl+C, or the process is killed: the finally block exports a report and
\* quits the browser; nothing is written to the data file
Stop ==
    /\ running
    /\ running' = FALSE
    /\ activity_data' = EmptyDict
    /\ lost_starts' = lost_starts \cup
          {<<u, activity_data[u].online_since.value, Len(activity_data[u].online_periods)>> :
              u \in OpenEntries(activity_data)}
    /\ last_op' = "stop"
    /\ UNCHANGED <<data_file, clock, scans, runs_started, last_snapshot, present_run,
                   batchVars, aggVars, extVars>>

BatchIdle ==
    /\ df = <<>>
    /\ gap = DefaultGap
    /\ session_df = Unset
    /\ sess_loc = Unset
    /\ metrics_df = Unset
    /\ metrics_loc = Unset
    /\ cache = EmptyCache

InitLive == LiveIdle /\ BatchIdle /\ AggIdle /\ ExtIdle

NextLive == Start \/ Scan \/ Stop

SpecLive == InitLive /\ [][NextLive]_vars

----------------------------------------------------------------------------
(* The batch specification: the inputs are drawn in Init, the actions call   *)
(* the two functions on them.                                                *)

Times == {TimeSamples[i] : i \in 1..NumTimes}

Gaps == {GapSamples[i] : i \in 1..NumGaps}

Rows == [timestamp : Times, name : Names]

Frames == UNION {[1..n -> Rows] : n \in 0..MaxRows}

InitBatch ==
    /\ df \in Frames
    /\ gap \in Gaps
    /\ session_df = Unset
    /\ sess_loc = Unset
    /\ metrics_df = Unset
    /\ metrics_loc = Unset
    /\ cache = [data |-> Value(df), timestamp |-> 0]
    /\ LiveIdle
    /\ AggIdle
    /\ ExtIdle

\* a variant that keeps its result in the module-level cache
CalculateSessionsCaching ==
    /\ session_df' = Value(calculate_sessions(df, gap))
    /\ sess_loc' = Value(calculate_sessions_locals(df, gap))
    /\ cache' = [cache EXCEPT !.data = Value(df), !.timestamp = @ + 1]
    /\ UNCHANGED <<df, gap, metrics_df, metrics_loc, liveVars, aggVars, extVars>>

\* update_session_analysis calling calculate_sessions(df, session_gap)
CalculateSessions ==
    /\ session_df' = Value(calculate_sessions(df, gap))
    /\ sess_loc' = Value(calculate_sessions_locals(df, gap))
    /\ UNCHANGED <<df, gap, metrics_df, metrics_loc, cache, liveVars, aggVars, extVars>>

\* export_to_excel calling self._calculate_session_metrics(df)
CalculateSessionMetrics ==
    /\ metrics_df' = calculate_session_metrics(df)
    /\ metrics_loc' = Value(calculate_session_metrics_locals(df))
    /\ UNCHANGED <<df, gap, session_df, sess_loc, cache, liveVars, aggVars, extVars>>

NextBatch == CalculateSessions \/ CalculateSessionMetrics

SpecBatch == InitBatch /\ [][NextBatch]_vars

----------------------------------------------------------------------------
(* The dashboard's aggregates: update_daily_chart, update_hourly_chart,      *)
(* update_heatmap.  A DataFrame is a sequence of rows; a cell that may be    *)
(* NaN is None or Value(n).                                                  *)

day_order ==
    <<"Monday", "Tuesday", "Wednesday", "Thursday", "Friday", "Saturday", "Sunday">>

\* the order in which groupby lists the day names
sorted_day_names ==
    <<"Friday", "Monday", "Saturday", "Sunday", "Thursday", "Tuesday", "Wednesday">>

\* df['timestamp'].dt.day_name() and .dt.hour
DayName(timestamp) == day_order[((timestamp \div SecPerDay) % DaysPerWeek) + 1]
Hour(timestamp) == (timestamp \div SecPerHour) % HoursPerDay

\* range(24)
HourRange == [i \in 1..HoursPerDay |-> i - 1]

\* the two filters every callback applies to get_activity_data()
ApplyFilters(d, dates, users) ==
    LET d1 == IF dates # None
              THEN SelectSeq(d, LAMBDA r : /\ r.timestamp >= dates.value.start_date
                                           /\ r.timestamp <= dates.value.end_date)
              ELSE d
    IN  IF users # {} THEN SelectSeq(d1, LAMBDA r : r.name \in users) ELSE d1

\* a variant that lists each key that occurs with a count of 1
GroupSizeOnes(col, keys) ==
    LET present == SelectSeq(keys, LAMBDA k : \E i \in DOMAIN col : col[i] = k)
    IN  [j \in DOMAIN present |-> [key |-> present[j], count |-> 1]]

\* df.groupby(<key>).size().reset_index(name='count'), `col` being the key
\* column of the frame: one row per key that occurs, in the order of `keys`
GroupSize(col, keys) ==
    LET present == SelectSeq(keys, LAMBDA k : \E i \in DOMAIN col : col[i] = k)
    IN  [j \in DOMAIN present |->
            [key |-> present[j],
             count |-> Cardinality({i \in DOMAIN col : col[i] = present[j]})]]

\* The right frame of every merge is a groupby(...).size() result: its keys
\* are distinct, so a left row matches at most one of its rows.
MergedRow(l, right) ==
    LET matches == SelectSeq(right, LAMBDA r : r.key = l.key)
    IN  [key |-> l.key, count_default |-> l.count,
         count_actual |-> IF matches = <<>> THEN None ELSE Value(matches[1].count)]

\* how='inner': the left rows without a match are dropped
MergeInner(left, right) ==
    SelectSeq([i \in DOMAIN left |-> MergedRow(left[i], right)],
              LAMBDA row : row.count_actual # None)

\* left.merge(right, on=<key>, how='left'): every left row, with the count of
\* its matching right row, or NaN if there is none
MergeLeft(left, right) == [i \in DOMAIN left |-> MergedRow(left[i], right)]

\* series.fillna(other)
Fillna(cell, other) == IF cell = None THEN other ELSE cell.value

\* the position of a day name in day_order: day_order.index(x)
DayIndex(x) == (CHOOSE i \in DOMAIN day_order : day_order[i] = x) - 1

RECURSIVE InsertByDayOrder(_, _)
InsertByDayOrder(row, rows) ==
    IF rows = <<>> THEN <<row>>
    ELSE IF row.day_order < Head(rows).day_order THEN <<row>> \o rows
    ELSE <<Head(rows)>> \o InsertByDayOrder(row, Tail(rows))

\* sort_values('day_order')
RECURSIVE SortByDayOrder(_)
SortByDayOrder(rows) ==
    IF rows = <<>> THEN <<>>
    ELSE InsertByDayOrder(rows[Len(rows)], SortByDayOrder(SubSeq(rows, 1, Len(rows) - 1)))

\* day_counts of update_daily_chart
DayCounts(d) ==
    LET all_days == [i \in DOMAIN day_order |-> [key |-> day_order[i], count |-> 0]]
        actual_counts == GroupSize([i \in DOMAIN d |-> DayName(d[i].timestamp)], sorted_day_names)
        merged == MergeLeft(all_days, actual_counts)
    IN  SortByDayOrder([i \in DOMAIN merged |->
            [day_name |-> merged[i].key,
             count |-> Fillna(merged[i].count_actual, 0),
             day_order |-> DayIndex(merged[i].key)]])

\* hour_counts of update_hourly_chart
HourCounts(d) ==
    LET counts == GroupSize([i \in DOMAIN d |-> Hour(d[i].timestamp)], HourRange)
        all_hours == [i \in DOMAIN HourRange |-> [key |-> HourRange[i], count |-> 0]]
        merged == MergeLeft(all_hours, counts)
    IN  [i \in DOMAIN merged |->
            [hour |-> merged[i].key, count |-> Fillna(merged[i].count_actual, 0)]]

\* the 7 x 24 rows of grid_data, day by day
GridKeys ==
    [i \in 1..(Len(day_order) * HoursPerDay) |->
        <<day_order[((i - 1) \div HoursPerDay) + 1], (i - 1) % HoursPerDay>>]

\* heatmap_data of update_heatmap: merged_df.pivot(index='day_name',
\* columns='hour', values='count').reindex(day_order)
HeatmapData(d) ==
    LET grid_df == [i \in DOMAIN GridKeys |-> [key |-> GridKeys[i], count |-> 0]]
        actual_counts ==
            GroupSize([i \in DOMAIN d |-> <<DayName(d[i].timestamp), Hour(d[i].timestamp)>>],
                      GridKeys)
        merged == MergeLeft(grid_df, actual_counts)
        merged_df == [i \in DOMAIN merged |->
            [day_name |-> merged[i].key[1], hour |-> merged[i].key[2],
             count |-> Fillna(merged[i].count_actual, merged[i].count_default)]]
        columns == {merged_df[i].hour : i \in DOMAIN merged_df}
        pivot_index == {merged_df[i].day_name : i \in DOMAIN merged_df}
        \* the merged row that holds (day, hour): the row at its place in grid
        \* order if that row is the one, else any row with these two keys
        Cell(day, hour) ==
            LET at == DayIndex(day) * HoursPerDay + hour + 1
                hits == IF /\ at \in DOMAIN merged_df
                           /\ merged_df[at].day_name = day
                           /\ merged_df[at].hour = hour
                        THEN {at}
                        ELSE {i \in DOMAIN merged_df :
                                merged_df[i].day_name = day /\ merged_df[i].hour = hour}
            IN  IF day \notin pivot_index \/ hits = {} THEN None
                ELSE Value(merged_df[CHOOSE i \in hits : TRUE].count)
    IN  [index |-> day_order,
         columns |-> columns,
         values |-> [i \in DOMAIN day_order |-> [h \in columns |-> Cell(day_order[i], h)]]]

----------------------------------------------------------------------------
(* The dashboard's specification: the table and the filter are drawn in     *)
(* Init, the three callbacks compute their frames from them.                *)

AggRows == [timestamp : {AggTimeSamples[i] : i \in 1..NumAggTimes}, name : Names]

AggFrames == UNION {[1..n -> AggRows] : n \in 0..MaxAggRows}

\* the date picker's range: none, or Monday 00:00:00 .. Tuesday 00:00:00
DateFilters == {None, Value([start_date |-> 0, end_date |-> SecPerDay])}

InitAgg ==
    /\ df \in AggFrames
    /\ gap = DefaultGap
    /\ session_df = Unset
    /\ sess_loc = Unset
    /\ metrics_df = Unset
    /\ metrics_loc = Unset
    /\ cache = [data |-> Value(df), timestamp |-> 0]
    /\ LiveIdle
    /\ selected_users \in SUBSET Names
    /\ date_filter \in DateFilters
    /\ day_counts = Unset
    /\ hour_counts = Unset
    /\ heatmap_data = Unset
    /\ ExtIdle

UpdateDailyChart ==
    /\ day_counts' = Value(DayCounts(ApplyFilters(df, date_filter, selected_users)))
    /\ UNCHANGED <<selected_users, date_filter, hour_counts, heatmap_data,
                   batchVars, liveVars, extVars>>

UpdateHourlyChart ==
    /\ hour_counts' = Value(HourCounts(ApplyFilters(df, date_filter, selected_users)))
    /\ UNCHANGED <<selected_users, date_filter, day_counts, heatmap_data,
                   batchVars, liveVars, extVars>>

UpdateHeatmap ==
    /\ heatmap_data' = Value(HeatmapData(ApplyFilters(df, date_filter, selected_users)))
    /\ UNCHANGED <<selected_users, date_filter, day_counts, hour_counts,
                   batchVars, liveVars, extVars>>

NextAgg == UpdateDailyChart \/ UpdateHourlyChart \/ UpdateHeatmap

SpecAgg == InitAgg /\ [][NextAgg]_vars

----------------------------------------------------------------------------
(* The other producers of hour / weekday aggregates: the per-user charts of  *)
(* the dashboard (update_user_charts) and the export's pivot tables          *)
(* (_create_pivot_charts, _create_activity_heatmap).                         *)

\* the filters of update_user_charts: the date range, then one selected user
ApplyUserFilters(d, dates, user) ==
    LET d1 == IF dates # None
              THEN SelectSeq(d, LAMBDA r : /\ r.timestamp >= dates.value.start_date
                                           /\ r.timestamp <= dates.value.end_date)
              ELSE d
    IN  IF user # None THEN SelectSeq(d1, LAMBDA r : r.name = user.value) ELSE d1

\* lambda x: day_order.index(x) if x in day_order else <other>
DayIndexOr(x, other) ==
    IF \E i \in DOMAIN day_order : day_order[i] = x THEN DayIndex(x) ELSE other

\* df.groupby('hour').size().reset_index(name='count')
HourGroupCounts(d) ==
    LET counts == GroupSize([i \in DOMAIN d |-> Hour(d[i].timestamp)], HourRange)
    IN  [i \in DOMAIN counts |-> [hour |-> counts[i].key, count |-> counts[i].count]]

\* df.groupby('day_name').size().reset_index(name='count'), with the
\* day_order column, sorted by it
DayGroupCounts(d, other) ==
    LET counts == GroupSize([i \in DOMAIN d |-> DayName(d[i].timestamp)], sorted_day_names)
    IN  SortByDayOrder([i \in DOMAIN counts |->
            [day_name |-> counts[i].key, count |-> counts[i].count,
             day_order |-> DayIndexOr(counts[i].key, other)]])

\* the two frames update_user_charts plots
UserCharts(d) ==
    [hour_counts |-> HourGroupCounts(d), day_counts |-> DayGroupCounts(d, -1)]

\* the two tables _create_pivot_charts writes; day_order is dropped after the sort
PivotCharts(d) ==
    LET sorted == DayGroupCounts(d, 999)
    IN  [hour_counts |-> HourGroupCounts(d),
         day_counts |-> [i \in DOMAIN sorted |->
                            [day_name |-> sorted[i].day_name, count |-> sorted[i].count]]]

\* pd.pivot_table(heat_df, index='day_name', columns='hour', values='name',
\* aggfunc='count', fill_value=0), reindexed to the weekdays it holds
ActivityHeatmap(d) ==
    LET pivot_index == {DayName(d[i].timestamp) : i \in DOMAIN d}
        columns == {Hour(d[i].timestamp) : i \in DOMAIN d}
        index == SelectSeq(day_order, LAMBDA x : x \in pivot_index)
        Count(day, hour) ==
            Cardinality({i \in DOMAIN d : /\ DayName(d[i].timestamp) = day
                                          /\ Hour(d[i].timestamp) = hour})
    IN  [index |-> index,
         columns |-> columns,
         values |-> [i \in DOMAIN index |-> [h \in columns |-> Count(index[i], h)]]]

SelectedUsers == {None} \cup {Value(n) : n \in Names}

InitCharts ==
    /\ df \in AggFrames
    /\ gap = DefaultGap
    /\ session_df = Unset
    /\ sess_loc = Unset
    /\ metrics_df = Unset
    /\ metrics_loc = Unset
    /\ cache = [data |-> Value(df), timestamp |-> 0]
    /\ LiveIdle
    /\ selected_users = {}
    /\ date_filter \in DateFilters
    /\ day_counts = Unset
    /\ hour_counts = Unset
    /\ heatmap_data = Unset
    /\ selected_user \in SelectedUsers
    /\ user_charts = Unset
    /\ pivot_charts = Unset
    /\ activity_heatmap = Unset
    /\ StatusIdle
    /\ StoreIdle
    /\ SinceIdle
    /\ TrackIdle

\* update_user_charts(selected_user, start_date, end_date)
UpdateUserCharts ==
    /\ user_charts' = Value(UserCharts(ApplyUserFilters(df, date_filter, selected_user)))
    /\ UNCHANGED <<selected_user, pivot_charts, activity_heatmap,
                   batchVars, liveVars, aggVars, statusVars, storeVars, sinceVars, trackVars>>

\* export_to_excel calling self._create_pivot_charts(df, writer)
CreatePivotCharts ==
    /\ pivot_charts' = Value(PivotCharts(df))
    /\ UNCHANGED <<selected_user, user_charts, activity_heatmap,
                   batchVars, liveVars, aggVars, statusVars, storeVars, sinceVars, trackVars>>

\* export_to_excel calling self._create_activity_heatmap(df, writer)
CreateActivityHeatmap ==
    /\ activity_heatmap' = Value(ActivityHeatmap(df))
    /\ UNCHANGED <<selected_user, user_charts, pivot_charts,
                   batchVars, liveVars, aggVars, statusVars, storeVars, sinceVars, trackVars>>

NextCharts == UpdateUserCharts \/ CreatePivotCharts \/ CreateActivityHeatmap

SpecCharts == InitCharts /\ [][NextCharts]_vars

----------------------------------------------------------------------------
(* The currently-online derivation: update_current_status.  Its result is    *)
(* one of four: no data, stale data, nobody online, the users online.        *)

\* Seconds since the epoch: 00:30:00, 00:15:00, 00:14:59, 00:45:01, 00:00:00
StatusTimeSamples == <<1800, 900, 899, 2701, 0>>

\* Ticks since the epoch: 00:45:00 sharp, one tick later, 00:30:00, 01:00:00
NowSamples ==
    <<2700 * TicksPerSec, 2700 * TicksPerSec + 1, 1800 * TicksPerSec, 3600 * TicksPerSec>>

\* a variant that calls the data stale from 15 minutes on
IsStaleAtWindow(now, latest_time) ==
    now - latest_time * TicksPerSec >= StatusWindow * SecPerMin * TicksPerSec

\* (current_time - latest_time).total_seconds() / 60 > 15
IsStale(now, latest_time) ==
    now - latest_time * TicksPerSec > StatusWindow * SecPerMin * TicksPerSec

\* a variant that loses the first name of the sorted list
SortedUniqueSkippingFirst(rows) ==
    LET names == SelectSeq(NameList, LAMBDA n : \E i \in DOMAIN rows : rows[i].name = n)
    IN  IF names = <<>> THEN names ELSE Tail(names)

\* sorted(recent_df['name'].unique())
SortedUnique(rows) == SelectSeq(NameList, LAMBDA n : \E i \in DOMAIN rows : rows[i].name = n)

update_current_status(d, users, now) ==
    IF d = <<>> THEN [kind |-> "no_data"]
    ELSE
    LET latest_time == MaxSeq([i \in DOMAIN d |-> d[i].timestamp])
        recent_time == latest_time - StatusWindow * SecPerMin
        recent_df == SelectSeq(d, LAMBDA r : r.timestamp >= recent_time)
        selected == IF users # {} THEN SelectSeq(recent_df, LAMBDA r : r.name \in users)
                    ELSE recent_df
        online_users == SortedUnique(selected)
    IN  IF IsStale(now, latest_time) THEN [kind |-> "stale", latest_time |-> latest_time]
        ELSE IF Len(online_users) = 0 THEN [kind |-> "none_online"]
        ELSE [kind |-> "online", latest_time |-> latest_time, online_users |-> online_users]

StatusRows == [timestamp : {StatusTimeSamples[i] : i \in 1..NumStatusTimes}, name : Names]

StatusFrames == UNION {[1..n -> StatusRows] : n \in 0..MaxAggRows}

InitStatus ==
    /\ df \in StatusFrames
    /\ gap = DefaultGap
    /\ session_df = Unset
    /\ sess_loc = Unset
    /\ metrics_df = Unset
    /\ metrics_loc = Unset
    /\ cache = [data |-> Value(df), timestamp |-> 0]
    /\ activity_data = EmptyDict
    /\ data_file = None
    /\ running = FALSE
    /\ clock \in {NowSamples[i] : i \in 1..NumNows}
    /\ scans = 0
    /\ runs_started = 0
    /\ last_op = "none"
    /\ last_snapshot = <<>>
    /\ present_run = NoRuns
    /\ lost_starts = {}
    /\ selected_users \in SUBSET Names
    /\ date_filter = None
    /\ day_counts = Unset
    /\ hour_counts = Unset
    /\ heatmap_data = Unset
    /\ ChartIdle
    /\ current_status = Unset
    /\ StoreIdle
    /\ SinceIdle
    /\ TrackIdle

\* the callback update_current_status(selected_users), at time `clock`
UpdateCurrentStatus ==
    /\ current_status' = Value(update_current_status(df, selected_users, clock))
    /\ UNCHANGED <<batchVars, liveVars, aggVars, chartVars, storeVars, sinceVars, trackVars>>

NextStatus == UpdateCurrentStatus

SpecStatus == InitStatus /\ [][NextStatus]_vars

----------------------------------------------------------------------------
(* The observation store (table online_activity, written by                  *)
(* DatabaseManager.add_online_activity) and get_activity_data(), the cached  *)
(* read in front of it.  A call is modelled statement by statement: the      *)
(* freshness test, the copy of the cached frame, the read of the table, the  *)
(* two assignments to _data_cache.  DataFrame objects have identities, so    *)
(* that a frame shared between the cache and a caller shows.                 *)

\* the TEXT of a timestamp column that pd.to_datetime cannot parse
Malformed == -1

\* a variant that overwrites the newest row
add_online_activity_replacing(st, timestamp, name) ==
    IF st = <<>> THEN <<[timestamp |-> timestamp, name |-> name]>>
    ELSE [st EXCEPT ![Len(st)] = [timestamp |-> timestamp, name |-> name]]

\* INSERT INTO online_activity (timestamp, name, status) VALUES (?, ?, ?)
add_online_activity(st, timestamp, name) ==
    Append(st, [timestamp |-> timestamp, name |-> name])

\* pd.to_datetime(df['timestamp']): raises (None) if a value cannot be parsed
ToDatetime(rows) ==
    IF \E i \in DOMAIN rows : rows[i].timestamp = Malformed THEN None ELSE Value(rows)

\* SELECT timestamp, name, status FROM online_activity, then the conversion
ReadAll(st) == ToDatetime(st)

IsPrefix(a, b) == Len(a) <= Len(b) /\ a = SubSeq(b, 1, Len(a))

\* a variant with twice the lifetime
IsFreshTwice(now, cached_at) == now - cached_at < 2 * CACHE_DURATION * TicksPerSec

\* (current_time - _data_cache['timestamp']) < CACHE_DURATION
IsFresh(now, cached_at) == now - cached_at < CACHE_DURATION * TicksPerSec

\* a variant without the test for None
IsHitUnchecked(cch, now) == IsFresh(now, cch.timestamp)

\* _data_cache['data'] is not None and (current_time - _data_cache['timestamp']) < CACHE_DURATION
IsHit(cch, now) == cch.data # None /\ IsFresh(now, cch.timestamp)

\* the identities of the DataFrame objects in use
UsedObjs ==
    {cache_obj} \cup {call[c].obj : c \in AllCallers}
                \cup {held[c].value.obj : c \in {x \in AllCallers : held[x] # None}}

\* a variant that hands out the object itself
CopyShared(obj, used) == obj

\* df.copy(): a new object, with an identity no object in use has
Copy(obj, used) == CHOOSE n \in 1..(Cardinality(used) + 1) : n \notin used

\* Steps of the clock, in ticks: one tick less than CACHE_DURATION, one tick
CacheDeltas == {CACHE_DURATION * TicksPerSec - 1, 1}

trackerVars == <<activity_data, data_file, running, scans, runs_started, last_op,
                 last_snapshot, present_run, lost_starts>>

\* d ticks pass
Tick(d) ==
    /\ time_steps < MaxTimeSteps
    /\ time_steps' = time_steps + 1
    /\ clock' = clock + d
    /\ UNCHANGED <<store, arrived, cache_obj, pc, call, held, returned, calls_made,
                   cache, df, gap, session_df, sess_loc, metrics_df, metrics_loc,
                   trackerVars, aggVars, chartVars, statusVars, sinceVars, trackVars>>

\* the contact the tracker records next: the contacts take turns
NextContact(st) == NameList[(Len(st) % Len(NameList)) + 1]

\* the tracker records one online contact: self.db.add_online_activity(timestamp, name)
AddOnlineActivity ==
    /\ Len(store) < MaxStore
    /\ store' = add_online_activity(store, Strftime(clock), NextContact(store))
    /\ arrived' = Append(arrived, clock)
    /\ UNCHANGED <<cache_obj, pc, call, held, returned, calls_made, time_steps,
                   batchVars, liveVars, aggVars, chartVars, statusVars, sinceVars, trackVars>>

\* current_time = time.time(); the test "if _data_cache['data'] is not None and ..."
Begin(c) ==
    /\ pc[c] = "idle"
    /\ calls_made < MaxCalls
    /\ calls_made' = calls_made + 1
    /\ call' = [call EXCEPT ![c] = [NoCall EXCEPT !.current_time = clock]]
    /\ pc' = [pc EXCEPT ![c] = IF IsHit(cache, clock) THEN "hit" ELSE "read"]
    /\ UNCHANGED <<store, arrived, cache_obj, held, returned, time_steps,
                   batchVars, liveVars, aggVars, chartVars, statusVars, sinceVars, trackVars>>

\* return _data_cache['data'].copy()
ReturnCached(c) ==
    /\ pc[c] = "hit"
    /\ IF cache.data = None
       THEN /\ returned' = [returned EXCEPT ![c] =
                                Value([kind |-> "raised", started |-> call[c].current_time])]
            /\ UNCHANGED held
       ELSE /\ held' = [held EXCEPT ![c] =
                          Value([obj |-> Copy(cache_obj, UsedObjs), rows |-> cache.data.value])]
            /\ returned' = [returned EXCEPT ![c] =
                              Value([kind |-> "returned", rows |-> cache.data.value,
                                     hit |-> TRUE, started |-> call[c].current_time])]
    /\ pc' = [pc EXCEPT ![c] = "idle"]
    /\ call' = [call EXCEPT ![c] = NoCall]
    /\ UNCHANGED <<store, arrived, cache_obj, calls_made, time_steps,
                   batchVars, liveVars, aggVars, chartVars, statusVars, sinceVars, trackVars>>

\* sqlite3.connect, pd.read_sql_query, pd.to_datetime and the derived columns
Read(c) ==
    /\ pc[c] = "read"
    /\ IF ReadAll(store) = None
       THEN /\ returned' = [returned EXCEPT ![c] =
                                Value([kind |-> "raised", started |-> call[c].current_time])]
            /\ pc' = [pc EXCEPT ![c] = "idle"]
            /\ call' = [call EXCEPT ![c] = NoCall]
       ELSE /\ call' = [call EXCEPT ![c].df = ReadAll(store).value,
                                    ![c].obj = Copy(0, UsedObjs)]
            /\ pc' = [pc EXCEPT ![c] = "store_data"]
            /\ UNCHANGED returned
    /\ UNCHANGED <<store, arrived, cache_obj, held, calls_made, time_steps,
                   batchVars, liveVars, aggVars, chartVars, statusVars, sinceVars, trackVars>>

\* the read fails: the fallback sqlite3.connect or pd.read_sql_query raises
\* (database is locked after the timeout, I/O error), and nothing catches it
ReadFail(c) ==
    /\ pc[c] = "read"
    /\ returned' = [returned EXCEPT ![c] =
                      Value([kind |-> "raised", started |-> call[c].current_time])]
    /\ pc' = [pc EXCEPT ![c] = "idle"]
    /\ call' = [call EXCEPT ![c] = NoCall]
    /\ UNCHANGED <<store, arrived, cache_obj, held, calls_made, time_steps,
                   batchVars, liveVars, aggVars, chartVars, statusVars, sinceVars, trackVars>>

\* _data_cache['data'] = df.copy()
StoreData(c) ==
    /\ pc[c] = "store_data"
    /\ cache' = [cache EXCEPT !.data = Value(call[c].df)]
    /\ cache_obj' = Copy(call[c].obj, UsedObjs)
    /\ pc' = [pc EXCEPT ![c] = "store_ts"]
    /\ UNCHANGED <<store, arrived, call, held, returned, calls_made, time_steps,
                   df, gap, session_df, sess_loc, metrics_df, metrics_loc,
                   liveVars, aggVars, chartVars, statusVars, sinceVars, trackVars>>

\* _data_cache['timestamp'] = current_time; return df
StoreTimestamp(c) ==
    /\ pc[c] = "store_ts"
    /\ cache' = [cache EXCEPT !.timestamp = call[c].current_time]
    /\ held' = [held EXCEPT ![c] = Value([obj |-> call[c].obj, rows |-> call[c].df])]
    /\ returned' = [returned EXCEPT ![c] =
                      Value([kind |-> "returned", rows |-> call[c].df,
                             hit |-> FALSE, started |-> call[c].current_time])]
    /\ pc' = [pc EXCEPT ![c] = "idle"]
    /\ call' = [call EXCEPT ![c] = NoCall]
    /\ UNCHANGED <<store, arrived, cache_obj, calls_made, time_steps,
                   df, gap, session_df, sess_loc, metrics_df, metrics_loc,
                   liveVars, aggVars, chartVars, statusVars, sinceVars, trackVars>>

\* what a caller may do to the frame it was given: here it overwrites the
\* name column in place
Edited(rows) == [i \in DOMAIN rows |-> [rows[i] EXCEPT !.name = "edited"]]

\* the caller changes its frame in place; every reference to the same object
\* sees the change
Mutate(c) ==
    /\ held[c] # None
    /\ held[c].value.rows # Edited(held[c].value.rows)
    /\ LET obj == held[c].value.obj
       IN  /\ held' = [x \in AllCallers |->
                         IF held[x] # None /\ held[x].value.obj = obj
                         THEN Value([obj |-> obj, rows |-> Edited(held[x].value.rows)])
                         ELSE held[x]]
           /\ cache' = IF cache_obj = obj /\ cache.data # None
                       THEN [cache EXCEPT !.data = Value(Edited(cache.data.value))]
                       ELSE cache
    /\ UNCHANGED <<store, arrived, cache_obj, pc, call, returned, calls_made, time_steps,
                   df, gap, session_df, sess_loc, metrics_df, metrics_loc,
                   liveVars, aggVars, chartVars, statusVars, sinceVars, trackVars>>

\* The table at the start: empty, or one row with an unparseable timestamp
InitialStores == {<<>>, <<[timestamp |-> Malformed, name |-> "Alice"]>>}

InitCache ==
    /\ BatchIdle
    /\ LiveIdle
    /\ AggIdle
    /\ ChartIdle
    /\ StatusIdle
    /\ store \in InitialStores
    /\ arrived = [i \in DOMAIN store |-> 0]
    /\ cache_obj = 0
    /\ pc = [c \in AllCallers |-> "idle"]
    /\ call = [c \in AllCallers |-> NoCall]
    /\ held = [c \in AllCallers |-> None]
    /\ returned = [c \in AllCallers |-> None]
    /\ calls_made = 0
    /\ time_steps = 0
    /\ SinceIdle
    /\ TrackIdle

\* one caller at a time: the calls do not overlap; reads may fail
NextCache ==
    \/ \E d \in CacheDeltas : Tick(d)
    \/ AddOnlineActivity
    \/ Begin("c1")
    \/ ReturnCached("c1")
    \/ Read("c1")
    \/ ReadFail("c1")
    \/ StoreData("c1")
    \/ StoreTimestamp("c1")
    \/ Mutate("c1")

SpecCache == InitCache /\ [][NextCache]_vars

InitRace == BatchIdle /\ LiveIdle /\ AggIdle /\ ExtIdle

\* concurrent callers and the single writer, on a store that works; the
\* clock moves by whole cache lifetimes
NextRace ==
    \/ Tick(CACHE_DURATION * TicksPerSec)
    \/ AddOnlineActivity
    \/ \E c \in AllCallers :
          \/ Begin(c)
          \/ ReturnCached(c)
          \/ Read(c)
          \/ StoreData(c)
          \/ StoreTimestamp(c)

SpecRace == InitRace /\ [][NextRace]_vars

----------------------------------------------------------------------------
(* DatabaseManager.get_activity_since(hours)                                 *)

\* Seconds since the epoch: 01:00:00, 01:00:01, 00:59:59
SinceTimeSamples == <<3600, 3601, 3599>>

\* Ticks since the epoch: 02:00:00 sharp, one tick later, one second later
SinceNowSamples == <<7200 * TicksPerSec, 7200 * TicksPerSec + 1, 7201 * TicksPerSec>>

\* the arguments: one hour, and the default
HoursChoices == {1, 24}

\* time_ago = (now - timedelta(hours=hours)).strftime(...);
\* SELECT ... FROM online_activity WHERE timestamp > time_ago; pd.to_datetime
get_activity_since(st, now, hours) ==
    LET time_ago == Strftime(now - hours * SecPerHour * TicksPerSec)
    IN  ToDatetime(SelectSeq(st, LAMBDA r : r.timestamp > time_ago))

SinceRows == [timestamp : {SinceTimeSamples[i] : i \in 1..NumSinceTimes}, name : Names]

SinceStores == UNION {[1..n -> SinceRows] : n \in 0..MaxStore}

InitSince ==
    /\ BatchIdle
    /\ activity_data = EmptyDict
    /\ data_file = None
    /\ running = FALSE
    /\ clock \in {SinceNowSamples[i] : i \in 1..NumSinceNows}
    /\ scans = 0
    /\ runs_started = 0
    /\ last_op = "none"
    /\ last_snapshot = <<>>
    /\ present_run = NoRuns
    /\ lost_starts = {}
    /\ AggIdle
    /\ ChartIdle
    /\ StatusIdle
    /\ store \in SinceStores
    /\ arrived = [i \in DOMAIN store |-> 0]
    /\ cache_obj = 0
    /\ pc = [c \in AllCallers |-> "idle"]
    /\ call = [c \in AllCallers |-> NoCall]
    /\ held = [c \in AllCallers |-> None]
    /\ returned = [c \in AllCallers |-> None]
    /\ calls_made = 0
    /\ time_steps = 0
    /\ since_df = Unset
    /\ TrackIdle

\* self.db.get_activity_since(hours), at time `clock`
GetActivitySince ==
    /\ \E hours \in HoursChoices :
          since_df' = Value([hours |-> hours, df |-> get_activity_since(store, clock, hours)])
    /\ UNCHANGED <<batchVars, liveVars, aggVars, chartVars, statusVars, storeVars, trackVars>>

NextSince == GetActivitySince

SpecSince == InitSince /\ [][NextSince]_vars

----------------------------------------------------------------------------
(* scan_online_contacts, and a tracker whose scans may lie days apart *)

\* the names the contacts list shows, in the order of the page: one name
\* under two spellings that differ in the blanks between its words, and
\* another name
TrackNameList == <<<<"A", " ", "B">>, <<"A", " ", " ", "B">>, <<"C">>>>

TrackNames == {TrackNameList[i] : i \in DOMAIN TrackNameList}

\* the text the script's error answer starts with, and that answer's element
ErrorPrefix == <<"E", "R", "R", "O", "R">>
ErrorMessage == ErrorPrefix \o <<":">>

\* str.startswith
StartsWith(name, prefix) ==
    Len(name) >= Len(prefix) /\ SubSeq(name, 1, Len(prefix)) = prefix

\* the script's list of names: the contacts with a green dot in the order of
\* the page, each name once, here up to two names
TrackSnapshots ==
    {<<>>} \cup {<<TrackNameList[i]>> : i \in DOMAIN TrackNameList}
        \cup {<<TrackNameList[p[1]], TrackNameList[p[2]]>> :
                    p \in {q \in (DOMAIN TrackNameList) \X (DOMAIN TrackNameList) :
                                q[1] < q[2]}}

\* a call of the browser that raised
Raised == [kind |-> "raise"]

\* what driver.execute_script can do: raise, answer the names found, or
\* answer the one-element error list
ScriptResults ==
    {Raised} \cup {Value(s) : s \in TrackSnapshots \cup {<<ErrorMessage>>}}

\* a variant that hands the script's list on as it is
scan_online_contacts_unchecked(result) ==
    IF result = Raised THEN <<>> ELSE result.value

\* scan_online_contacts, given what execute_script did
scan_online_contacts(result) ==
    IF result = Raised THEN <<>>
    ELSE IF result.value = <<>> THEN <<>>
    ELSE IF StartsWith(result.value[1], ErrorPrefix) THEN <<>>
    ELSE result.value

\* Ticks between two scans: a minute and a tick, or three days and an hour
\* (the session open across it starts in another hour, day and, the second
\* time, week than it ends in)
TrackDeltas ==
    {SecPerMin * TicksPerSec + 1, (3 * SecPerDay + SecPerHour) * TicksPerSec}

\* one pass of the loop of track_continuously: scan_online_contacts, then
\* update_activity_data, which ends with save_data
TrackScan ==
    /\ running
    /\ scans < MaxTrackScans
    /\ \E dt \in TrackDeltas, result \in ScriptResults :
          LET online_contacts == scan_online_contacts(result)
          IN  /\ clock' = clock + dt
              /\ scan_result' = result
              /\ activity_data' =
                    update_activity_data(activity_data, online_contacts, clock')
              /\ last_snapshot' = online_contacts
    /\ data_file' = Value(activity_data')
    /\ scans' = scans + 1
    /\ last_op' = "update"
    /\ UNCHANGED <<running, runs_started, present_run, lost_starts, batchVars, aggVars,
                   chartVars, statusVars, storeVars, sinceVars>>

\* FacebookActivityTracker() where no data file exists: load_data leaves
\* activity_data = {}
InitTrack ==
    /\ activity_data = EmptyDict
    /\ data_file = None
    /\ running = TRUE
    /\ clock = 0
    /\ scans = 0
    /\ runs_started = 1
    /\ last_op = "load"
    /\ last_snapshot = <<>>
    /\ present_run = NoRuns
    /\ lost_starts = {}
    /\ BatchIdle
    /\ AggIdle
    /\ ExtIdle

NextTrack == TrackScan

SpecTrack == InitTrack /\ [][NextTrack]_vars

----------------------------------------------------------------------------
(* Batch session reconstruction: the properties checked under SpecBatch *)

\* the sessions (positions in session_starts / session_ends) that hold the
\* observation at 0-based position i of the sorted timestamps
SessionsHolding(loc, i) ==
    {k \in 1..Len(loc.session_starts) :
        k <= Len(loc.session_ends)
        /\ loc.session_starts[k] <= i /\ i <= loc.session_ends[k]}

\* Every observation lies in one session, and two neighbours lie in different
\* sessions exactly when they are more than `minutes` apart.
SplitIffGreater(loc, minutes) ==
    /\ \A i \in 0..(Len(loc.timestamps) - 1) :
            Cardinality(SessionsHolding(loc, i)) = 1
    /\ \A i \in 0..(Len(loc.timestamps) - 2) :
            (SessionsHolding(loc, i) # SessionsHolding(loc, i + 1))
                <=> (At(loc.timestamps, i + 1) - At(loc.timestamps, i)
                        > minutes * SecPerMin)

\* C1: in calculate_sessions (threshold G) and in _calculate_session_metrics
\* (fixed 15 minutes) two consecutive observations of one user fall into
\* different sessions if and only if they are strictly more than the threshold
\* apart; a gap equal to the threshold keeps them in one session.
C1_StrictGap ==
    /\ sess_loc.kind = "value" =>
          \A n \in DOMAIN sess_loc.value : SplitIffGreater(sess_loc.value[n], gap)
    /\ metrics_loc.kind = "value" =>
          \A n \in DOMAIN metrics_loc.value :
              SplitIffGreater(metrics_loc.value[n], session_break_threshold)

\* some neighbours of the user are exactly `seconds` apart and share a session,
\* and some others are further apart and do not
HasEqualAndLargerGap(loc, seconds) ==
    /\ \E i \in 0..(Len(loc.timestamps) - 2) :
          /\ At(loc.timestamps, i + 1) - At(loc.timestamps, i) = seconds
          /\ SessionsHolding(loc, i) = SessionsHolding(loc, i + 1)
    /\ \E i \in 0..(Len(loc.timestamps) - 2) :
          /\ At(loc.timestamps, i + 1) - At(loc.timestamps, i) > seconds
          /\ SessionsHolding(loc, i) # SessionsHolding(loc, i + 1)

C1_Witness ==
    /\ sess_loc.kind = "value" /\ metrics_loc.kind = "value"
    /\ gap = DefaultGap
    /\ \E n \in DOMAIN sess_loc.value :
          HasEqualAndLargerGap(sess_loc.value[n], gap * SecPerMin)
    /\ \E n \in DOMAIN metrics_loc.value :
          HasEqualAndLargerGap(metrics_loc.value[n],
                               session_break_threshold * SecPerMin)

\* the row of the result for one name, if any
RowsOf(result, name) ==
    IF result.kind # "value" THEN {}
    ELSE {result.value[i] : i \in {j \in DOMAIN result.value :
                                       result.value[j].Name = name}}

\* the names with exactly one row in the frame
SingleObservationNames(d) == {n \in Names : Len(GroupTimestamps(d, n)) = 1}

\* one degenerate session at the user's only timestamp, reported as one session
OneDegenerateSession(result, locals, d, n) ==
    LET t == GroupTimestamps(d, n)[1]
    IN  /\ \E row \in RowsOf(result, n) :
              /\ row.TotalSessions = 1
              /\ row.TotalOnline = 0
              /\ row.FirstSeen = t /\ row.LastSeen = t
        /\ locals.kind = "value"
        /\ n \in DOMAIN locals.value
        /\ locals.value[n].session_lengths = <<0>>

\* C2: a user with exactly one observation gets one degenerate session
\* (start = end = that timestamp, duration 0) and total_sessions = 1, in every
\* input that holds such a user, the input with that single row included.
C2_SingleObservation ==
    /\ session_df # Unset =>
          \A n \in SingleObservationNames(df) :
              OneDegenerateSession(session_df, sess_loc, df, n)
    /\ metrics_df # Unset =>
          \A n \in SingleObservationNames(df) :
              OneDegenerateSession(metrics_df, metrics_loc, df, n)

\* the runs of a sorted sequence: the maximal stretches <<a, b>> of 1-based
\* positions inside which no neighbours are more than `minutes` apart
Runs(ts, minutes) ==
    LET Far(i) == ts[i + 1] - ts[i] > minutes * SecPerMin
    IN  {<<a, b>> \in (DOMAIN ts) \X (DOMAIN ts) :
            /\ a <= b
            /\ \A i \in a..(b - 1) : ~Far(i)
            /\ a > 1 => Far(a - 1)
            /\ b < Len(ts) => Far(b)}

\* C3: the break points partition each user's sorted observations into runs,
\* each run is one session from its first to its last timestamp with duration
\* end - start, Total Sessions is the number of runs and Total Online (a report
\* column of two decimals) is the sum of the run durations.
C3_RunsAreSessions ==
    session_df # Unset =>
        \A n \in {df[i].name : i \in DOMAIN df} :
            LET ts == SortValues(GroupTimestamps(df, n))
                runs == Runs(ts, gap)
            IN  /\ sess_loc.kind = "value" /\ n \in DOMAIN sess_loc.value
                /\ LET loc == sess_loc.value[n]
                   IN  /\ Len(loc.session_lengths) = Cardinality(runs)
                       /\ \A k \in DOMAIN loc.session_lengths :
                             /\ <<loc.session_starts[k] + 1, loc.session_ends[k] + 1>>
                                    \in runs
                             /\ loc.session_lengths[k] =
                                    At(ts, loc.session_ends[k])
                                        - At(ts, loc.session_starts[k])
                /\ \E row \in RowsOf(session_df, n) :
                      /\ row.TotalSessions = Cardinality(runs)
                      /\ row.TotalOnline =
                            Round2(SumSeq([k \in 1..Cardinality(runs) |->
                                LET r == CHOOSE r \in runs :
                                        Cardinality({q \in runs : q[1] < r[1]}) = k - 1
                                IN  ts[r[2]] - ts[r[1]]]), 1)

\* start <= end in every session, and a session ends no later than the next
\* one starts
OrderedSessions(loc) ==
    /\ Len(loc.session_starts) = Len(loc.session_ends)
    /\ \A k \in DOMAIN loc.session_starts :
          At(loc.timestamps, loc.session_starts[k])
              <= At(loc.timestamps, loc.session_ends[k])
    /\ \A k \in 1..(Len(loc.session_starts) - 1) :
          /\ At(loc.timestamps, loc.session_starts[k])
                <= At(loc.timestamps, loc.session_starts[k + 1])
          /\ At(loc.timestamps, loc.session_ends[k])
                <= At(loc.timestamps, loc.session_starts[k + 1])

\* C4: for every observation sequence of a user and every threshold, each
\* session has start <= end and, in order of start, the end of a session is
\* <= the start of the next: the sessions are ordered and never overlap.
C4_OrderedNonOverlapping ==
    /\ sess_loc.kind = "value" =>
          \A n \in DOMAIN sess_loc.value : OrderedSessions(sess_loc.value[n])
    /\ metrics_loc.kind = "value" =>
          \A n \in DOMAIN metrics_loc.value : OrderedSessions(metrics_loc.value[n])

\* the frame is out of timestamp order and a user of it has three sessions
C4_Witness ==
    /\ sess_loc.kind = "value"
    /\ \E i \in 1..(Len(df) - 1) : df[i].timestamp > df[i + 1].timestamp
    /\ \E n \in DOMAIN sess_loc.value :
          /\ Len(sess_loc.value[n].session_starts) = 3
          /\ GroupTimestamps(df, n) # sess_loc.value[n].timestamps

\* C5: for a user with at least two observations the durations of the
\* reconstructed sessions sum to at most latest - earliest timestamp.
C5_SumWithinSpan ==
    sess_loc.kind = "value" =>
        \A n \in DOMAIN sess_loc.value :
            LET loc == sess_loc.value[n]
            IN  Len(loc.timestamps) >= 2 =>
                    SumSeq(loc.session_lengths)
                        <= MaxSeq(loc.timestamps) - MinSeq(loc.timestamps)

\* a user with two sessions, one of them longer than a point, whose durations
\* sum to less than the span
C5_Witness ==
    /\ sess_loc.kind = "value"
    /\ \E n \in DOMAIN sess_loc.value :
          LET loc == sess_loc.value[n]
          IN  /\ Len(loc.session_lengths) = 2
              /\ SumSeq(loc.session_lengths) > 0
              /\ SumSeq(loc.session_lengths)
                    < MaxSeq(loc.timestamps) - MinSeq(loc.timestamps)

----------------------------------------------------------------------------
(* The live tracker: the properties checked under SpecLive *)

\* the scan just made found the user absent after a run of scans with the
\* user present
RunJustEnded(u) == present_run[u] # None /\ present_run[u].value.ended

\* the step is a scan that appends exactly one period to the user's list
OnePeriodAdded(u) ==
    /\ u \in DOMAIN activity_data /\ u \in DOMAIN activity_data'
    /\ Len(activity_data'[u].online_periods) = Len(activity_data[u].online_periods) + 1
    /\ SubSeq(activity_data'[u].online_periods, 1, Len(activity_data[u].online_periods))
          = activity_data[u].online_periods

LastPeriod(entry) == entry.online_periods[Len(entry.online_periods)]

C8_OnlineIffInSnapshot ==
    last_op = "update" =>
        /\ DOMAIN activity_data \subseteq UserIds
        /\ \A u \in UserIds :
              u \in OpenEntries(activity_data) <=> u \in SnapshotIds(last_snapshot)

\* a tracker started from saved data with two open entries: the first scan
\* finds one of the two users (under another spelling of the name) and not
\* the other
C8_Witness ==
    /\ last_op = "update"
    /\ runs_started = 2
    /\ \E u, v \in UserIds :
          /\ u # v
          /\ \E l \in lost_starts : l[1] = u
          /\ \E l \in lost_starts : l[1] = v
          /\ u \in SnapshotIds(last_snapshot)
          /\ activity_data[u].name \notin {last_snapshot[i] : i \in DOMAIN last_snapshot}
          /\ v \notin SnapshotIds(last_snapshot)
          /\ v \in DOMAIN activity_data

\* C9: a session that is open when the collector stops is never recorded: no
\* later action, a later run of the tracker included, adds an online_periods
\* entry (or minutes) for the interval that was open at the shutdown.
C9_OpenSessionNeverRecorded ==
    \A l \in lost_starts :
        l[1] \in DOMAIN activity_data =>
            \A i \in DOMAIN activity_data[l[1]].online_periods :
                i > l[3] => activity_data[l[1]].online_periods[i].start # l[2]

----------------------------------------------------------------------------
(* The dashboard's aggregates: the properties checked under SpecAgg *)

\* the rows the callbacks aggregate
Filtered == ApplyFilters(df, date_filter, selected_users)

\* C10: the overview aggregates are dense for every input, the empty one and
\* one that covers a single bucket included: the hour histogram has exactly
\* the 24 entries 0..23, the weekday histogram exactly the 7 weekdays, the
\* heatmap exactly 7 x 24 cells, with 0 in every bucket without observation.
C10_DenseAggregates ==
    LET rows == Filtered
    IN
    /\ day_counts # Unset =>
          /\ Len(day_counts.value) = DaysPerWeek
          /\ \A i \in DOMAIN day_counts.value :
                /\ day_counts.value[i].day_name = day_order[i]
                /\ (\A j \in DOMAIN rows : DayName(rows[j].timestamp) # day_order[i])
                    => day_counts.value[i].count = 0
    /\ hour_counts # Unset =>
          /\ Len(hour_counts.value) = HoursPerDay
          /\ \A i \in DOMAIN hour_counts.value :
                /\ hour_counts.value[i].hour = i - 1
                /\ (\A j \in DOMAIN rows : Hour(rows[j].timestamp) # i - 1)
                    => hour_counts.value[i].count = 0
    /\ heatmap_data # Unset =>
          /\ heatmap_data.value.index = day_order
          /\ heatmap_data.value.columns = 0..(HoursPerDay - 1)
          /\ Len(heatmap_data.value.values) = DaysPerWeek
          /\ \A i \in DOMAIN heatmap_data.value.values :
                \A h \in 0..(HoursPerDay - 1) :
                    /\ h \in DOMAIN heatmap_data.value.values[i]
                    /\ heatmap_data.value.values[i][h] # None
                    /\ (\A j \in DOMAIN rows :
                            \/ DayName(rows[j].timestamp) # day_order[i]
                            \/ Hour(rows[j].timestamp) # h)
                        => heatmap_data.value.values[i][h] = Value(0)

\* the three callbacks have run on a table whose rows the filter all drops
C10_Witness ==
    /\ day_counts # Unset /\ hour_counts # Unset /\ heatmap_data # Unset
    /\ df # <<>>
    /\ Filtered = <<>>

\* the number of the filtered observations on weekday d, at hour h, and both
OnDay(rows, d) == Cardinality({j \in DOMAIN rows : DayName(rows[j].timestamp) = d})
AtHour(rows, h) == Cardinality({j \in DOMAIN rows : Hour(rows[j].timestamp) = h})
OnDayAtHour(rows, d, h) ==
    Cardinality({j \in DOMAIN rows : /\ DayName(rows[j].timestamp) = d
                                     /\ Hour(rows[j].timestamp) = h})

\* C12: on the date- and user-filtered observations, bucket h of the hour
\* histogram is the number of observations whose hour is h, bucket d of the
\* weekday histogram the number of observations on weekday d, and cell (d, h)
\* of the heatmap the number of observations on weekday d at hour h, the
\* weekdays in Monday..Sunday order.
C12_BucketCounts ==
    LET rows == Filtered
    IN
    /\ hour_counts # Unset =>
          \A i \in DOMAIN hour_counts.value :
              hour_counts.value[i].count = AtHour(rows, hour_counts.value[i].hour)
    /\ day_counts # Unset =>
          /\ [i \in DOMAIN day_counts.value |-> day_counts.value[i].day_name] = day_order
          /\ \A i \in DOMAIN day_counts.value :
                day_counts.value[i].count = OnDay(rows, day_order[i])
    /\ heatmap_data # Unset =>
          /\ heatmap_data.value.index = day_order
          /\ \A i \in DOMAIN heatmap_data.value.values :
                \A h \in DOMAIN heatmap_data.value.values[i] :
                    heatmap_data.value.values[i][h] = Value(OnDayAtHour(rows, day_order[i], h))

\* the three callbacks have run on observations that all fall on one Tuesday,
\* more than one of them, at different hours
C12_Witness ==
    /\ day_counts # Unset /\ hour_counts # Unset /\ heatmap_data # Unset
    /\ Len(Filtered) >= 2
    /\ \A j \in DOMAIN Filtered : DayName(Filtered[j].timestamp) = "Tuesday"
    /\ \E j, k \in DOMAIN Filtered : Hour(Filtered[j].timestamp) # Hour(Filtered[k].timestamp)
    /\ day_counts.value[2].count = Len(Filtered)

----------------------------------------------------------------------------
(* The other producers' aggregates: the property checked under SpecCharts *)

HourKeys(rows) == {rows[i].hour : i \in DOMAIN rows}
DayKeys(rows) == {rows[i].day_name : i \in DOMAIN rows}
AllDays == {day_order[i] : i \in DOMAIN day_order}
AllHours == 0..(HoursPerDay - 1)

\* C11: every producer's aggregates cover the full domain: the hour tables
\* of update_user_charts and _create_pivot_charts have a row for each of the
\* 24 hours, their weekday tables a row for each of the 7 weekdays, and the
\* pivot of _create_activity_heatmap has all 7 weekdays as rows and all 24
\* hours as columns.
C11_ZeroFilledEverywhere ==
    /\ user_charts # Unset =>
          /\ HourKeys(user_charts.value.hour_counts) = AllHours
          /\ DayKeys(user_charts.value.day_counts) = AllDays
    /\ pivot_charts # Unset =>
          /\ HourKeys(pivot_charts.value.hour_counts) = AllHours
          /\ DayKeys(pivot_charts.value.day_counts) = AllDays
    /\ activity_heatmap # Unset =>
          /\ activity_heatmap.value.index = day_order
          /\ activity_heatmap.value.columns = AllHours

----------------------------------------------------------------------------
(* The currently-online derivation: the properties checked under SpecStatus *)

\* T_max, and the users with an observation in [T_max - W, T_max]
LatestTime == MaxSeq([i \in DOMAIN df |-> df[i].timestamp])

InWindow ==
    {df[i].name : i \in {j \in DOMAIN df :
        /\ df[j].timestamp >= LatestTime - StatusWindow * SecPerMin
        /\ df[j].timestamp <= LatestTime}}

\* now - T_max > W, in ticks
PastWindow == clock - LatestTime * TicksPerSec > StatusWindow * SecPerMin * TicksPerSec

\* the users a result lists
Reported(status) ==
    IF status.kind = "online"
    THEN {status.online_users[i] : i \in DOMAIN status.online_users}
    ELSE {}

\* C13 as stated: if now - T_max > W the data are reported stale, which is
\* not the "nobody online" result, and no user is listed; otherwise, now -
\* T_max = W included, exactly the users with an observation in
\* [T_max - W, T_max] are reported.
C13_WindowUsers ==
    (current_status # Unset /\ df # <<>>) =>
        IF PastWindow
        THEN current_status.value.kind = "stale"
        ELSE /\ current_status.value.kind \in {"online", "none_online"}
             /\ Reported(current_status.value) = InWindow

\* C13, amended: as above, but of the users with an observation in
\* [T_max - W, T_max] only those in the dropdown selection are reported when
\* a selection is made, T_max being the latest timestamp of the unfiltered
\* table; "nobody online" is the result exactly when none is left, and an
\* empty table gives a fourth result, "no data".
C13_SelectedWindowUsers ==
    current_status # Unset =>
        LET status == current_status.value
            wanted == IF selected_users # {} THEN InWindow \cap selected_users ELSE InWindow
        IN  IF df = <<>> THEN status.kind = "no_data"
            ELSE IF PastWindow THEN status.kind = "stale"
            ELSE /\ status.kind = (IF wanted = {} THEN "none_online" ELSE "online")
                 /\ Reported(status) = wanted

\* the status was derived with now - T_max exactly W, and a user whose only
\* observation is exactly W before T_max is reported with the user seen at T_max
C13_Witness ==
    /\ current_status # Unset
    /\ df # <<>>
    /\ clock = (LatestTime + StatusWindow * SecPerMin) * TicksPerSec
    /\ current_status.value.kind = "online"
    /\ \E i, j \in DOMAIN df :
          /\ df[i].timestamp = LatestTime
          /\ df[j].timestamp = LatestTime - StatusWindow * SecPerMin
          /\ df[i].name # df[j].name
          /\ Reported(current_status.value) = {df[i].name, df[j].name}

----------------------------------------------------------------------------
(* get_activity_data(): the properties checked under SpecCache, where the    *)
(* calls of the one caller do not overlap                                    *)

Returned(c) == returned[c] # None /\ returned[c].value.kind = "returned"

\* a snapshot is cached and younger than CACHE_DURATION
CachedAndYoung ==
    /\ cache.data # None
    /\ clock - cache.timestamp < CACHE_DURATION * TicksPerSec

\* no snapshot a call returned omits a row that was in the store more than
\* CACHE_DURATION before the call began
NoOldRowOmitted ==
    \A c \in AllCallers :
        Returned(c) =>
            \A i \in DOMAIN store :
                arrived[i] + CACHE_DURATION * TicksPerSec < returned[c].value.started
                    => i <= Len(returned[c].value.rows)

\* C14: a call takes the cached snapshot, without reading the store and
\* without touching the cache, if and only if a snapshot is cached and
\* now - cached_at < CACHE_DURATION; otherwise it reads the store and
\* replaces both the cached snapshot and cached_at; so no returned snapshot
\* omits a row that was in the store more than CACHE_DURATION before the call.
C14_CachedWhileFresh ==
    /\ []NoOldRowOmitted
    /\ [][\A c \in AllCallers :
            /\ Begin(c) => (pc'[c] = "hit" <=> CachedAndYoung)
            /\ Begin(c) => (pc'[c] = "read" <=> ~CachedAndYoung)
            /\ ReturnCached(c) =>
                  /\ Returned(c)'
                  /\ returned'[c].value.rows = cache.data.value
                  /\ cache' = cache
            /\ (Read(c) /\ pc'[c] = "store_data") => call'[c].df = store
            /\ StoreTimestamp(c) =>
                  /\ cache'.data = Value(returned'[c].value.rows)
                  /\ cache'.timestamp = returned'[c].value.started
                  /\ returned'[c].value.rows = call[c].df]_vars

\* a call within the lifetime returned the cached snapshot, which lacks a row
\* the store got in the meantime
C14_Witness ==
    /\ Returned("c1")
    /\ returned["c1"].value.hit
    /\ Len(returned["c1"].value.rows) < Len(store)
    /\ returned["c1"].value.started > cache.timestamp

\* C15: whatever a caller does to a snapshot it was given, on a hit or on a
\* miss, the cached snapshot does not change, and every call returns the
\* data as they were read from the store.
C15_DefensiveCopy ==
    /\ [](cache.data # None => IsPrefix(cache.data.value, store))
    /\ [](\A c \in AllCallers : Returned(c) => IsPrefix(returned[c].value.rows, store))
    /\ [][\A c \in AllCallers : Mutate(c) => cache' = cache]_vars

\* the caller has changed the snapshot a cache hit gave it, and the cache still
\* holds the rows read from the store
C15_Witness ==
    /\ Returned("c1")
    /\ returned["c1"].value.hit
    /\ returned["c1"].value.rows # <<>>
    /\ held["c1"].value.rows = Edited(returned["c1"].value.rows)
    /\ cache.data = Value(returned["c1"].value.rows)

\* C16: when the read of the store fails on a cache miss, the call does not
\* raise: it returns the snapshot cached before.
C16_StaleOnReadFailure ==
    [][\A c \in AllCallers :
          ReadFail(c) =>
              /\ Returned(c)'
              /\ cache.data # None => returned'[c].value.rows = cache.data.value]_vars

\* C18: the table is append-only: every step leaves the rows it holds in
\* place and at most adds rows at the end, so what a read returned is a
\* prefix, in insertion order, of the table ever after, that is of what every
\* later fresh read returns.
C18_AppendOnly ==
    /\ [][IsPrefix(store, store')]_vars
    /\ [](\A c \in AllCallers : Returned(c) => IsPrefix(returned[c].value.rows, store))

\* a fresh read returned rows, and the table has got a row since
C18_Witness ==
    /\ Returned("c1")
    /\ ~returned["c1"].value.hit
    /\ returned["c1"].value.rows # <<>>
    /\ Len(returned["c1"].value.rows) < Len(store)

WellFormed(rows) == SelectSeq(rows, LAMBDA r : r.timestamp # Malformed)

\* C20: a read of a table that holds a row with an unparseable timestamp
\* completes, and hands on exactly the well-formed rows.
C20_MalformedRowSkipped ==
    [][\A c \in AllCallers :
          (Read(c) /\ WellFormed(store) # store) =>
              /\ pc'[c] = "store_data"
              /\ call'[c].df = WellFormed(store)]_vars

----------------------------------------------------------------------------
(* get_activity_data() under concurrent callers: the property checked under  *)
(* SpecRace                                                                  *)

\* C17: under any interleaving of the statements of concurrent calls and of
\* the writer's inserts, every call that has ended returned a complete
\* snapshot, the table as it was at some instant (a prefix of the log), never
\* nothing and never a mixture, and the cache holds such a snapshot too.
C17_ValidSnapshots ==
    /\ \A c \in AllCallers :
          returned[c] # None =>
              /\ returned[c].value.kind = "returned"
              /\ IsPrefix(returned[c].value.rows, store)
    /\ cache.data # None => IsPrefix(cache.data.value, store)

\* two overlapping calls both read the table, one before and one after an
\* insert, and the older snapshot was the last to be written to the cache
C17_Witness ==
    /\ Returned("c1") /\ Returned("c2")
    /\ ~returned["c1"].value.hit /\ ~returned["c2"].value.hit
    /\ Len(returned["c1"].value.rows) < Len(returned["c2"].value.rows)
    /\ cache.data = Value(returned["c1"].value.rows)

----------------------------------------------------------------------------
(* get_activity_since: the property checked under SpecSince *)

\* C19: get_activity_since(hours) returns exactly the stored observations
\* whose timestamp is at or after now - hours, one stamped exactly
\* at now - hours included, and no others.
C19_SinceInclusive ==
    since_df # Unset =>
        since_df.value.df =
            Value(SelectSeq(store, LAMBDA r :
                Strptime(r.timestamp) >=
                    clock - since_df.value.hours * SecPerHour * TicksPerSec))

----------------------------------------------------------------------------
(* The empty observation table: the property checked under SpecBatch *)

\* C21: on an empty observation table every session query returns an empty
\* structure, never null: calculate_sessions and _calculate_session_metrics
\* both return an empty session list.
C21_EmptyNeverNull ==
    df = <<>> =>
        /\ session_df # Unset => session_df = Value(<<>>)
        /\ metrics_df # Unset => metrics_df = Value(<<>>)

----------------------------------------------------------------------------
(* The live tracker over long runs: the properties checked under SpecTrack *)

\* dictionary `after` is `before` with amount added under key (a key that
\* was missing counting as 0) and every other key as it was
Credited(before, after, key, amount) ==
    /\ DOMAIN after = DOMAIN before \cup {key}
    /\ \A k \in DOMAIN after :
          after[k] = (IF k \in DOMAIN before THEN before[k] ELSE 0)
                        + (IF k = key THEN amount ELSE 0)

\* the step is a scan that finds user u, who has an online_since, absent
WentOffline(u) ==
    /\ scans' = scans + 1
    /\ u \in OpenEntries(activity_data)
    /\ \A i \in DOMAIN last_snapshot' : UserId(last_snapshot'[i]) # u

\* C22: on an Online->Offline transition at scan time t the tracker appends
\* one session {start: online_since, end: t, duration = t - online_since},
\* adds the duration to total_minutes and to exactly one daily, one weekly and
\* one hourly bucket, those of the session's start, leaves every other bucket
\* unchanged, and removes online_since.
C22_OfflineTransition ==
    [][\A u \in DOMAIN activity_data :
          WentOffline(u) =>
              LET before == activity_data[u]
                  after == activity_data'[u]
                  started == Strptime(before.online_since.value)
                  duration == clock' - started
              IN  /\ after.online_periods =
                        Append(before.online_periods,
                               [start |-> before.online_since.value,
                                end |-> Strftime(clock'),
                                duration_minutes |-> duration])
                  /\ after.total_minutes = before.total_minutes + duration
                  /\ Credited(before.daily_activity, after.daily_activity,
                              DayKey(started), duration)
                  /\ Credited(before.weekly_activity, after.weekly_activity,
                              WeekKey(started), duration)
                  /\ Credited(before.hourly_activity, after.hourly_activity,
                              HourKey(started), duration)
                  /\ after.online_since = None]_vars

\* a session just closed that began in another hour, day and week than it
\* ended in
C22_Witness ==
    /\ last_op = "update"
    /\ \E u \in DOMAIN activity_data :
          /\ activity_data[u].online_since = None
          /\ activity_data[u].online_periods # <<>>
          /\ LET p == LastPeriod(activity_data[u])
             IN  /\ p.end = Strftime(clock)
                 /\ DayKey(Strptime(p.start)) # DayKey(Strptime(p.end))
                 /\ WeekKey(Strptime(p.start)) # WeekKey(Strptime(p.end))
                 /\ HourKey(Strptime(p.start)) # HourKey(Strptime(p.end))
                 /\ DOMAIN activity_data[u].daily_activity = {DayKey(Strptime(p.start))}

\* the keys of the names in a snapshot
KeysOf(snapshot) == {UserId(snapshot[i]) : i \in DOMAIN snapshot}

\* C23: a scan changes nothing for a user whose state does not change: for a
\* user in the snapshot who already has online_since, and for a user absent
\* from it who has none, online_since, total_minutes, online_periods and the
\* daily, weekly and hourly buckets stay as they were; online_since is not
\* reset to the time of the scan.
C23_UnchangedUserUntouched ==
    [][\A u \in DOMAIN activity_data :
          (/\ scans' = scans + 1
           /\ u \in KeysOf(last_snapshot') <=> u \in OpenEntries(activity_data))
          => /\ activity_data'[u].online_since = activity_data[u].online_since
             /\ activity_data'[u].total_minutes = activity_data[u].total_minutes
             /\ activity_data'[u].online_periods = activity_data[u].online_periods
             /\ activity_data'[u].daily_activity = activity_data[u].daily_activity
             /\ activity_data'[u].weekly_activity = activity_data[u].weekly_activity
             /\ activity_data'[u].hourly_activity = activity_data[u].hourly_activity]_vars

\* after a scan, one user is online since an earlier scan and another, with a
\* session on record, has been offline since an earlier scan
C23_Witness ==
    /\ last_op = "update"
    /\ \E u, v \in DOMAIN activity_data :
          /\ u \in KeysOf(last_snapshot)
          /\ activity_data[u].online_since # None
          /\ activity_data[u].online_since.value < Strftime(clock)
          /\ v \notin KeysOf(last_snapshot)
          /\ activity_data[v].online_since = None
          /\ activity_data[v].online_periods # <<>>
          /\ LastPeriod(activity_data[v]).end < Strftime(clock)

\* a name without its leading blanks and with every run of blanks cut to one
RECURSIVE Squeeze(_, _)
Squeeze(name, after_blank) ==
    IF name = <<>> THEN <<>>
    ELSE IF Head(name) = " "
        THEN (IF after_blank THEN <<>> ELSE <<" ">>) \o Squeeze(Tail(name), TRUE)
    ELSE <<Head(name)>> \o Squeeze(Tail(name), FALSE)

\* a display name up to letter case and blanks
Normalised(name) ==
    LET s == Squeeze(LowerName(name), TRUE)
    IN  IF s # <<>> /\ s[Len(s)] = " " THEN SubSeq(s, 1, Len(s) - 1) ELSE s

\* C24: the tracker's key is case-insensitive and whitespace-normalized: two
\* display names that differ only in letter case or in blanks (leading,
\* trailing, repeated between words) have the same key, so they share one
\* entry of activity_data and one session history.
C24_OneEntryPerPerson ==
    \A u, v \in DOMAIN activity_data :
        Normalised(activity_data[u].name) = Normalised(activity_data[v].name)
            => u = v

\* the script raised, or answered no name, or its error list
FailedScan(result) ==
    result \in {Raised, Value(<<>>), Value(<<ErrorMessage>>)}

\* C25: a failed, malformed or empty scan counts as 'nobody online':
\* scan_online_contacts returns an empty list, and update_activity_data closes
\* every Online user the normal way (exactly one new session each), leaves no
\* user Online and changes nothing for the users already Offline.
C25_FailedScanNobodyOnline ==
    [][(scans' = scans + 1 /\ FailedScan(scan_result')) =>
          /\ last_snapshot' = <<>>
          /\ DOMAIN activity_data' = DOMAIN activity_data
          /\ OpenEntries(activity_data') = {}
          /\ \A u \in DOMAIN activity_data :
                IF u \in OpenEntries(activity_data)
                THEN /\ OnePeriodAdded(u)
                     /\ LastPeriod(activity_data'[u]).start =
                            activity_data[u].online_since.value
                     /\ LastPeriod(activity_data'[u]).end = Strftime(clock')
                ELSE activity_data'[u] = activity_data[u]]_vars

\* the script answered its error list, or raised, while one user was online
\* and another had gone offline before
C25_Witness ==
    /\ last_op = "update"
    /\ scan_result \in {Raised, Value(<<ErrorMessage>>)}
    /\ \E u, v \in DOMAIN activity_data :
          /\ activity_data[u].online_periods # <<>>
          /\ LastPeriod(activity_data[u]).end = Strftime(clock)
          /\ activity_data[v].online_periods # <<>>
          /\ LastPeriod(activity_data[v]).end < Strftime(clock)
          /\ Len(activity_data[v].online_periods) = 1

\* the sum of the values of a dictionary
RECURSIVE SumValues(_)
SumValues(d) ==
    IF DOMAIN d = {} THEN 0
    ELSE LET k == CHOOSE x \in DOMAIN d : TRUE
         IN  d[k] + SumValues([x \in DOMAIN d \ {k} |-> d[x]])

\* the durations on record for an entry
Durations(entry) ==
    [i \in DOMAIN entry.online_periods |-> entry.online_periods[i].duration_minutes]

----------------------------------------------------------------------------
(* The two batch implementations: the properties checked under SpecBatch *)

\* the names with two or more rows in the frame
RepeatedNames(d) == {n \in Names : Len(GroupTimestamps(d, n)) >= 2}

\* C27: for the same observations and G = 15, calculate_sessions and
\* _calculate_session_metrics report the same Total Sessions, average,
\* maximum and total session length, first seen, last seen and days active
\* for every user with at least two observations.
C27_BatchImplementationsAgree ==
    (gap = session_break_threshold /\ session_df # Unset /\ metrics_df # Unset) =>
        \A n \in RepeatedNames(df) :
            /\ Cardinality(RowsOf(session_df, n)) = 1
            /\ RowsOf(session_df, n) = RowsOf(metrics_df, n)

\* both functions have run on a frame in which one user has three sessions,
\* the middle one located by the loop over the breaks
C27_Witness ==
    /\ gap = session_break_threshold
    /\ session_df # Unset
    /\ metrics_df # Unset
    /\ metrics_loc # Unset
    /\ \E n \in RepeatedNames(df) :
          /\ metrics_loc.value[n].session_count = 3
          /\ metrics_loc.value[n].session_starts = <<0, 1, 2>>
          /\ RowsOf(metrics_df, n) # {}

----------------------------------------------------------------------------
(* The cache under concurrent misses: the property checked under SpecRace *)

\* C28: under any interleaving the timestamp stored in _data_cache is not
\* later than the instant the cached snapshot was read from the store, so the
\* cached snapshot holds every row the store had before that timestamp, also
\* when two concurrent misses interleave their writes of data and timestamp.
C28_SnapshotAsRecentAsStamped ==
    cache.data # None =>
        \A i \in DOMAIN store :
            arrived[i] < cache.timestamp => i <= Len(cache.data.value)

\* the summary rows of calculate_sessions for the frame under threshold g
RowsUnder(g, n) == RowsOf(Value(calculate_sessions(df, g)), n)

\* C29: session reconstruction is monotone in the gap threshold: for
\* thresholds G1 <= G2 each user's Total Sessions under G2 is at most that
\* under G1 and each user's Total Online time under G2 is at least that
\* under G1.
C29_MonotoneInGap ==
    session_df # Unset =>
        \A g \in Gaps :
            LET other_df == Value(calculate_sessions(df, g))
            IN  \A n \in Names :
                    \A mine \in RowsOf(session_df, n), other \in RowsOf(other_df, n) :
                        /\ gap <= g => /\ other.TotalSessions <= mine.TotalSessions
                                       /\ other.TotalOnline >= mine.TotalOnline
                        /\ g <= gap => /\ mine.TotalSessions <= other.TotalSessions
                                       /\ mine.TotalOnline >= other.TotalOnline

\* calculate_sessions has run with threshold 0 on a frame for which the
\* default threshold gives a user fewer sessions and more time online
C29_Witness ==
    /\ session_df # Unset
    /\ gap < DefaultGap
    /\ \E n \in Names :
          \E mine \in RowsOf(session_df, n), other \in RowsUnder(DefaultGap, n) :
              /\ other.TotalSessions < mine.TotalSessions
              /\ other.TotalOnline > mine.TotalOnline
              /\ other.TotalSessions > 1

----------------------------------------------------------------------------
(* The current-status callback without a selection: checked under SpecStatus *)

\* the users observed at the latest timestamp
AtLatest == {df[i].name : i \in {j \in DOMAIN df : df[j].timestamp = LatestTime}}

\* C30: when the table is non-empty and not stale and no user is selected,
\* update_current_status reports a non-empty online set that contains every
\* user observed at the latest timestamp; 'No users are currently online' is
\* the result only when the selection excludes every user in the window.
C30_FreshDataNeverEmpty ==
    current_status # Unset =>
        LET status == current_status.value
        IN  /\ (df # <<>> /\ ~PastWindow /\ selected_users = {}) =>
                  /\ status.kind = "online"
                  /\ Reported(status) # {}
                  /\ AtLatest \subseteq Reported(status)
            /\ status.kind = "none_online" =>
                  /\ df # <<>>
                  /\ selected_users # {}
                  /\ InWindow \cap selected_users = {}

\* without a selection, at now - T_max exactly the window, two users are
\* reported, one of them seen at the latest timestamp only
C30_Witness ==
    /\ current_status # Unset
    /\ df # <<>>
    /\ ~PastWindow
    /\ clock - LatestTime * TicksPerSec = StatusWindow * SecPerMin * TicksPerSec
    /\ selected_users = {}
    /\ Cardinality(AtLatest) = 1
    /\ Cardinality(Reported(current_status.value)) = 2

====
